---------------------------- MODULE Spec2Model ----------------------------
(***************************************************************************)
(* A model of the STAB string parser of debugger/stabs.c:                  *)
(* DEBUG_ParseStabs (record joining and dispatch), DEBUG_ParseTypedefStab  *)
(* (the two-pass type definition parser), the type reference resolver      *)
(* (DEBUG_ReadTypeEnum, DEBUG_ReadTypeEnumBackwards,                       *)
(* DEBUG_FileSubNr2StabEnum, the include stack) and the typedef registry   *)
(* (DEBUG_RegisterTypedef, DEBUG_HandlePreviousTypedef).                   *)
(*                                                                         *)
(* Conventions.                                                            *)
(*  - A C string buffer is a sequence of one-character strings; NUL is the *)
(*    terminator.  Positions are 1-based; position 0 is the NULL pointer   *)
(*    where a function returns a pointer (strchr, strrchr).                *)
(*  - A struct datatype * is an index into heap; 0 is NULL.                *)
(*  - A struct datatype ** (a slot of a type table) is a record            *)
(*    [tab, sub, len]: tab = 0 for cu_vector, tab = k+1 for                *)
(*    include_defs[k].vector; sub is the subscript; len is the table's     *)
(*    length when the address was taken (a later DBG_realloc of that       *)
(*    table leaves the address dangling).                                  *)
(*  - The model is of the __ELF__ build.                                   *)
(***************************************************************************)
EXTENDS Integers, Sequences, FiniteSets, TLC

(***************************************************************************)
(* Characters and C strings                                                *)
(***************************************************************************)
S(str) == [k \in 1..Len(str) |-> SubSeq(str, k, k)]

NUL == ""

Digits == S("0123456789")

\* The printable ASCII characters, 0x20 .. 0x7e, in code order.
\* (0x60 cannot be written in a string literal and is given a name.)
AsciiChars ==
    S(" !\"#$%&'()*+,-./0123456789:;<=>?@ABCDEFGHIJKLMNOPQRSTUVWXYZ[\\]^_")
    \o <<"GRAVE">> \o S("abcdefghijklmnopqrstuvwxyz{|}~")

Ord(ch) == IF ch = NUL THEN 0 ELSE 31 + (CHOOSE k \in 1..Len(AsciiChars) : AsciiChars[k] = ch)

IsDigit(ch) == \E k \in 1..10 : Digits[k] = ch

DigitVal(ch) == (CHOOSE k \in 1..10 : Digits[k] = ch) - 1

SetMin(A) == CHOOSE x \in A : \A y \in A : x <= y

SetMax(A) == CHOOSE x \in A : \A y \in A : x >= y

\* *p for a pointer p into buf.  Outside the written part of the buffer the
\* model reads NUL; the parser's operators flag such reads (field ub).
At(buf, p) == IF p >= 1 /\ p <= Len(buf) THEN buf[p] ELSE NUL

\* The position of the terminator of the C string that starts at p.
StrEnd(buf, p) ==
    IF \E q \in p..Len(buf) : buf[q] = NUL
    THEN CHOOSE q \in p..Len(buf) : buf[q] = NUL /\ \A r \in p..(q - 1) : buf[r] # NUL
    ELSE SetMax({p, Len(buf) + 1})

Strlen(buf, p) == StrEnd(buf, p) - p

\* The C string that starts at p, without its terminator.
CStr(buf, p) == SubSeq(buf, p, StrEnd(buf, p) - 1)

\* strchr(p, ch) and strrchr(p, ch) for ch # NUL: a position, or 0 (NULL).
Strchr(buf, p, ch) ==
    LET hits == {q \in p..(StrEnd(buf, p) - 1) : buf[q] = ch}
    IN  IF hits = {} THEN 0 ELSE SetMin(hits)

Strrchr(buf, p, ch) ==
    LET hits == {q \in p..(StrEnd(buf, p) - 1) : buf[q] = ch}
    IN  IF hits = {} THEN 0 ELSE SetMax(hits)

\* strcpy(dst, src) inside one buffer with dst < src: the characters of the
\* string at src, terminator included, land at dst, dst+1, ...
Strcpy(buf, dst, src) ==
    LET n == Strlen(buf, src)
    IN  [q \in 1..Len(buf) |->
            IF q >= dst /\ q <= dst + n THEN At(buf, src + (q - dst)) ELSE buf[q]]

\* *p = ch
Poke(buf, p, ch) == IF p >= 1 /\ p <= Len(buf) THEN [buf EXCEPT ![p] = ch] ELSE buf

LONG_MAX == 2147483647

ClampLong(v) == IF v > LONG_MAX THEN LONG_MAX ELSE IF v < -LONG_MAX - 1 THEN -LONG_MAX - 1 ELSE v

RECURSIVE DigitsEnd(_, _)
DigitsEnd(buf, p) == IF IsDigit(At(buf, p)) THEN DigitsEnd(buf, p + 1) ELSE p

RECURSIVE Dec(_, _, _)
Dec(buf, p, e) == IF e <= p THEN 0 ELSE Dec(buf, p, e - 1) * 10 + DigitVal(buf[e - 1])

RECURSIVE SkipSpace(_, _)
SkipSpace(buf, p) == IF At(buf, p) = " " THEN SkipSpace(buf, p + 1) ELSE p

\* strtol(p, &end, 10): [val, end]; with no digits, val = 0 and end = p.
Strtol(buf, p) ==
    LET w   == SkipSpace(buf, p)
        neg == At(buf, w) = "-"
        d   == IF At(buf, w) \in {"-", "+"} THEN w + 1 ELSE w
        e   == DigitsEnd(buf, d)
        m   == Dec(buf, d, e)
    IN  IF e = d THEN [val |-> 0, end |-> p]
        ELSE [val |-> ClampLong(IF neg THEN -m ELSE m), end |-> e]

\* stab_strcpy(dest, sz, source): the characters up to the first ':' or NUL.
\* Every text of the model is shorter than the smallest dest (1024 bytes), so
\* that the copy stops before sz runs out and assert(sz > 0) holds.
stab_strcpy(buf, p) ==
    LET e     == StrEnd(buf, p)
        colon == {q \in p..(e - 1) : buf[q] = ":"}
    IN  SubSeq(buf, p, (IF colon = {} THEN e ELSE SetMin(colon)) - 1)

(***************************************************************************)
(* stab_hash, 32-bit unsigned arithmetic                                   *)
(***************************************************************************)
NR_STAB_HASH == 521

TwoTo24 == 16777216

TwoTo28 == 268435456

\* One round of the loop: hash = (hash << 4) + *p++, then the top four bits
\* (tmp) are folded into bits 4..7 and cleared.  hash < 2^28 on entry, and the
\* sum is taken modulo 2^32 without forming a number of more than 31 bits.
RECURSIVE stab_hash_from(_, _, _)
stab_hash_from(name, k, hash) ==
    IF k > Len(name) THEN hash
    ELSE LET sum   == ((hash % TwoTo24) * 16) + Ord(name[k])
             low   == sum % TwoTo28
             top   == ((hash \div TwoTo24) + (sum \div TwoTo28)) % 16
             b47   == (low \div 16) % 16
             x47   == CHOOSE v \in 0..15 :
                         \A bit \in 0..3 :
                            ((v \div (2 ^ bit)) % 2) =
                            ((((b47 \div (2 ^ bit)) % 2) + ((top \div (2 ^ bit)) % 2)) % 2)
         IN  stab_hash_from(name, k + 1, low - (b47 * 16) + (x47 * 16))

stab_hash(name) == stab_hash_from(name, 1, 0) % NR_STAB_HASH

(***************************************************************************)
(* The data type catalog (types.c is not among the sources; modelled from  *)
(* the interface the specification gives for it).                          *)
(***************************************************************************)
\* A NULL name.  No string holds its own terminator, so no name equals it.
NULLNAME == <<NUL>>

DEBUG_NewDataType(heap, xtype, typename) ==
    Append(heap, [type |-> xtype, name |-> typename, target |-> 0,
                  min |-> 0, max |-> 0, size |-> 0, sized |-> FALSE,
                  members |-> <<>>])

DEBUG_GetType(heap, dt) == IF dt = 0 THEN "NULL" ELSE heap[dt].type

DEBUG_SetPointerType(heap, dt, dt2) ==
    IF dt = 0 THEN heap ELSE [heap EXCEPT ![dt].target = dt2]

DEBUG_SetArrayParams(heap, dt, min, max, dt2) ==
    IF dt = 0 THEN heap
    ELSE [heap EXCEPT ![dt].min = min, ![dt].max = max, ![dt].target = dt2]

\* TRUE when the size was set, FALSE when the struct is already sized.
DEBUG_SetStructSizeOk(heap, dt) == dt # 0 /\ ~heap[dt].sized

DEBUG_SetStructSize(heap, dt, size) ==
    IF DEBUG_SetStructSizeOk(heap, dt)
    THEN [heap EXCEPT ![dt].size = size, ![dt].sized = TRUE]
    ELSE heap

DEBUG_AddStructElement(heap, dt, name, type, offset, size) ==
    IF dt = 0 THEN heap
    ELSE [heap EXCEPT ![dt].members =
             Append(@, [name |-> name, type |-> type, offset |-> offset, size |-> size])]

(***************************************************************************)
(* The parser's global state, as one record m threaded through the         *)
(* operators that model the C functions:                                   *)
(*   heap   the data type nodes                                            *)
(*   cu     cu_vector (length cu_nrofentries)                              *)
(*   defs   include_defs[0 .. num_include_def-1], each [name, value,       *)
(*          vector] (vector of length nrofentries)                         *)
(*   stk    cu_include_stack[1 ..] as far as it was ever written           *)
(*   idx    cu_include_stk_idx                                             *)
(*   ktd    the entries of ktd_head, each [hash, name, types], the most    *)
(*          recently registered first; the chain of bucket h is the        *)
(*          subsequence of the entries with hash = h                       *)
(*   abort  an assert has failed (the process is gone)                     *)
(*   ub     a read or write outside every object has happened              *)
(*   lost   a store through a dangling slot address went to released       *)
(*          storage                                                        *)
(*   moved  whether DBG_realloc moves a table that it grows                *)
(***************************************************************************)
MAX_INCLUDES == 256

Zeros(n) == [k \in 1..n |-> 0]

BadSlot == [tab |-> -1, sub |-> 0, len |-> 0]

TableOf(m, tab) == IF tab = 0 THEN m.cu ELSE m.defs[tab].vector

\* *slot
SlotRead(m, slot) ==
    IF slot.tab < 0 THEN 0
    ELSE LET v == TableOf(m, slot.tab)
         IN  IF slot.sub + 1 <= Len(v) THEN v[slot.sub + 1] ELSE 0

\* The table was reallocated after the address slot was taken.
Dangling(m, slot) == slot.tab >= 0 /\ Len(TableOf(m, slot.tab)) # slot.len

\* A variant of the store that lands one slot further on.
SlotWriteNext(m, slot, dt) ==
    IF slot.tab < 0 \/ m.abort THEN m
    ELSE IF slot.tab = 0
    THEN (IF slot.sub + 2 <= Len(m.cu) THEN [m EXCEPT !.cu[slot.sub + 2] = dt] ELSE m)
    ELSE (IF slot.sub + 2 <= Len(m.defs[slot.tab].vector)
          THEN [m EXCEPT !.defs[slot.tab].vector[slot.sub + 2] = dt] ELSE m)

\* *slot = dt.  Through a dangling address the store reaches the table only
\* if DBG_realloc grew it in place; otherwise it lands in released storage.
SlotWrite(m, slot, dt) ==
    IF slot.tab < 0 \/ m.abort THEN m
    ELSE IF Dangling(m, slot) /\ m.moved THEN [m EXCEPT !.lost = TRUE]
    ELSE IF slot.tab = 0 THEN [m EXCEPT !.cu[slot.sub + 1] = dt]
    ELSE [m EXCEPT !.defs[slot.tab].vector[slot.sub + 1] = dt]

DEBUG_CreateInclude(m, file, val) ==
    [m EXCEPT !.defs = Append(@, [name |-> file, value |-> val, vector |-> <<>>])]

\* A variant of the search that returns the last match.
DEBUG_FindIncludeLast(m, file, val) ==
    LET hits == {k \in 1..Len(m.defs) : m.defs[k].value = val /\ m.defs[k].name = file}
    IN  IF hits = {} THEN -1 ELSE SetMax(hits) - 1

\* The index, from 0, of the first include_def with this name and value; -1.
DEBUG_FindInclude(m, file, val) ==
    LET hits == {k \in 1..Len(m.defs) : m.defs[k].value = val /\ m.defs[k].name = file}
    IN  IF hits = {} THEN -1 ELSE SetMin(hits) - 1

\* A variant whose assertion admits one level more.
DEBUG_AddIncludeLate(m, idx) ==
    LET n == m.idx + 1
    IN  IF n > MAX_INCLUDES THEN [m EXCEPT !.idx = n, !.abort = TRUE]
        ELSE [m EXCEPT !.idx = n,
                       !.stk = IF n <= Len(@) THEN [@ EXCEPT ![n] = idx] ELSE Append(@, idx)]

\* ++cu_include_stk_idx; assert(cu_include_stk_idx < MAX_INCLUDES);
\* cu_include_stack[cu_include_stk_idx] = idx
DEBUG_AddInclude(m, idx) ==
    LET n == m.idx + 1
    IN  IF n >= MAX_INCLUDES THEN [m EXCEPT !.idx = n, !.abort = TRUE]
        ELSE [m EXCEPT !.idx = n,
                       !.stk = IF n <= Len(@) THEN [@ EXCEPT ![n] = idx] ELSE Append(@, idx)]

\* A variant that resets the depth of the include stack only.
DEBUG_ResetDepth(m) == [m EXCEPT !.idx = 0]

DEBUG_ResetIncludes(m) == [m EXCEPT !.idx = 0, !.cu = Zeros(Len(@))]

DEBUG_FreeIncludes(m) ==
    [DEBUG_ResetIncludes(m) EXCEPT !.defs = <<>>, !.cu = <<>>]

DEBUG_FileSubNr2StabEnum(m, filenr, subnr) ==
    IF m.abort \/ m.ub THEN [m |-> m, slot |-> BadSlot]
    ELSE IF filenr = 0 THEN
        IF subnr < 0 THEN [m |-> [m EXCEPT !.ub = TRUE], slot |-> BadSlot]
        ELSE LET m1 == IF Len(m.cu) <= subnr
                       THEN [m EXCEPT !.cu = @ \o Zeros(subnr + 1 - Len(@))]
                       ELSE m
             IN  [m |-> m1, slot |-> [tab |-> 0, sub |-> subnr, len |-> Len(m1.cu)]]
    ELSE IF filenr > m.idx THEN [m |-> [m EXCEPT !.abort = TRUE], slot |-> BadSlot]
    ELSE IF filenr < 0 \/ subnr < 0 THEN [m |-> [m EXCEPT !.ub = TRUE], slot |-> BadSlot]
    ELSE LET d == m.stk[filenr] + 1
         IN  IF d < 1 \/ d > Len(m.defs) THEN [m |-> [m EXCEPT !.ub = TRUE], slot |-> BadSlot]
             ELSE LET m1 == IF Len(m.defs[d].vector) <= subnr
                            THEN [m EXCEPT !.defs[d].vector = @ \o Zeros(subnr + 1 - Len(@))]
                            ELSE m
                  IN  [m |-> m1,
                       slot |-> [tab |-> d, sub |-> subnr, len |-> Len(m1.defs[d].vector)]]

\* The slot of a type reference and the position x after it.
TypeEnumAt(r, x) == [m |-> r.m, slot |-> r.slot, x |-> x]

\* subnr = strtol(x, &x, 10) has given s; skip is 1 for the ')' stepped over.
ReadSubNr(m, filenr, s, skip) ==
    TypeEnumAt(DEBUG_FileSubNr2StabEnum(m, filenr, s.val), s.end + skip)

\* filenr = strtol(x, &x, 10) has given f; x++ steps over the ','.
ReadFileNr(m, buf, f) == ReadSubNr(m, f.val, Strtol(buf, f.end + 1), 1)

\* A variant that walks back to the first '(' of the text.
DEBUG_ReadTypeEnumFromFirst(m, buf, x) ==
    IF At(buf, x) = ")" THEN
        LET opens == {q \in 1..x : buf[q] = "("}
        IN  IF opens = {} THEN [m |-> [m EXCEPT !.ub = TRUE], slot |-> BadSlot, x |-> x]
            ELSE ReadFileNr(m, buf, Strtol(buf, SetMin(opens) + 1))
    ELSE
        LET stops == {q \in 1..x : ~IsDigit(buf[q])}
        IN  IF stops = {} THEN [m |-> [m EXCEPT !.ub = TRUE], slot |-> BadSlot, x |-> x]
            ELSE ReadSubNr(m, 0, Strtol(buf, SetMax(stops) + 1), 0)

\* x is the position of the last character of a type reference.
DEBUG_ReadTypeEnumBackwards(m, buf, x) ==
    IF At(buf, x) = ")" THEN
        LET opens == {q \in 1..x : buf[q] = "("}
        IN  IF opens = {} THEN [m |-> [m EXCEPT !.ub = TRUE], slot |-> BadSlot, x |-> x]
            ELSE ReadFileNr(m, buf, Strtol(buf, SetMax(opens) + 1))
    ELSE
        LET stops == {q \in 1..x : ~IsDigit(buf[q])}
        IN  IF stops = {} THEN [m |-> [m EXCEPT !.ub = TRUE], slot |-> BadSlot, x |-> x]
            ELSE ReadSubNr(m, 0, Strtol(buf, SetMax(stops) + 1), 0)

\* x is the position of the first character of a type reference; the result
\* carries the position after it.
DEBUG_ReadTypeEnum(m, buf, x) ==
    IF At(buf, x) = "(" THEN ReadFileNr(m, buf, Strtol(buf, x + 1))
    ELSE ReadSubNr(m, 0, Strtol(buf, x), 0)

(***************************************************************************)
(* The typedef registry                                                    *)
(***************************************************************************)
\* A variant that registers nothing.
DEBUG_RegisterNothing(m, name, types) == m

\* A variant that registers a name once only.
DEBUG_RegisterOnce(m, name, types) ==
    IF Len(types) = 1 \/ \E k \in 1..Len(m.ktd) : m.ktd[k].name = name THEN m
    ELSE [m EXCEPT !.ktd = <<[hash |-> stab_hash(name), name |-> name, types |-> types]>> \o @]

DEBUG_RegisterTypedef(m, name, types) ==
    IF Len(types) = 1 THEN m
    ELSE [m EXCEPT !.ktd = <<[hash |-> stab_hash(name), name |-> name, types |-> types]>> \o @]

\* The positions of the '=' of the C string at 1, in increasing order.
RECURSIVE EqualsFrom(_, _)
EqualsFrom(buf, p) ==
    LET c == Strchr(buf, p, "=")
    IN  IF c = 0 THEN <<>> ELSE <<c>> \o EqualsFrom(buf, c + 1)

\* The kind a tag character stands for in DEBUG_HandlePreviousTypedef:
\* "ANY" is expect = -1, "UNKNOWN" the default branch.
ExpectOf(ch) ==
    CASE ch = "*" -> "DT_POINTER"
      [] ch \in {"s", "u", "x"} -> "DT_STRUCT"
      [] ch = "a" -> "DT_ARRAY"
      [] ch = "(" -> "ANY"
      [] ch \in {"1", "r"} -> "DT_BASIC"
      [] ch = "e" -> "DT_ENUM"
      [] ch = "f" -> "DT_FUNC"
      [] OTHER -> "UNKNOWN"

\* *DEBUG_ReadTypeEnumBackwards(ptr-1) = dt, r being what the read gave
Rebind(r, dt) == SlotWrite(r.m, r.slot, dt)

\* The second loop: *DEBUG_ReadTypeEnumBackwards(ptr-1) = ktd->types[count++]
RECURSIVE RebindFrom(_, _, _, _, _)
RebindFrom(m, buf, eqs, types, count) ==
    IF count > Len(eqs) \/ m.abort \/ m.ub THEN m
    ELSE RebindFrom(Rebind(DEBUG_ReadTypeEnumBackwards(m, buf, eqs[count] - 1), types[count]),
                    buf, eqs, types, count + 1)

\* A variant of the chain walk that stops at the last entry with the name.
KtdLookupOldest(m, name) ==
    LET hits == {k \in 1..Len(m.ktd) : m.ktd[k].name = name}
    IN  IF hits = {} THEN 0 ELSE SetMax(hits)

\* The entry the chain walk stops at: the first of the bucket with the name.
KtdLookup(m, name) ==
    LET hash == stab_hash(name)
        hits == {k \in 1..Len(m.ktd) : m.ktd[k].hash = hash /\ m.ktd[k].name = name}
    IN  IF hits = {} THEN 0 ELSE SetMin(hits)

\* A variant that compares the number of definitions and not their kinds.
DEBUG_HandlePreviousByCount(m, name, buf) ==
    LET k   == KtdLookup(m, name)
        eqs == EqualsFrom(buf, 1)
    IN  IF k = 0 \/ Len(m.ktd[k].types) # Len(eqs) THEN [m |-> m, ret |-> FALSE]
        ELSE [m |-> RebindFrom(m, buf, eqs, m.ktd[k].types, 1), ret |-> TRUE]

\* A variant that rebinds the slot of the first sub-definition only.
DEBUG_HandlePreviousFirstOnly(m, name, buf) ==
    LET k   == KtdLookup(m, name)
        eqs == EqualsFrom(buf, 1)
    IN  IF k = 0 THEN [m |-> m, ret |-> FALSE]
        ELSE LET types == m.ktd[k].types
                 bad   == {n \in 1..Len(eqs) :
                             \/ n > Len(types)
                             \/ ExpectOf(At(buf, eqs[n] + 1)) = "UNKNOWN"
                             \/ /\ ExpectOf(At(buf, eqs[n] + 1)) # "ANY"
                                /\ ExpectOf(At(buf, eqs[n] + 1)) # DEBUG_GetType(m.heap, types[n])}
             IN  IF bad # {} \/ Len(types) # Len(eqs) THEN [m |-> m, ret |-> FALSE]
                 ELSE [m |-> RebindFrom(m, buf, <<eqs[1]>>, types, 1), ret |-> TRUE]

DEBUG_HandlePreviousTypedef(m, name, buf) ==
    LET k   == KtdLookup(m, name)
        eqs == EqualsFrom(buf, 1)
    IN  IF k = 0 THEN [m |-> m, ret |-> FALSE]
        ELSE LET types == m.ktd[k].types
                 bad   == {n \in 1..Len(eqs) :
                             \/ n > Len(types)
                             \/ ExpectOf(At(buf, eqs[n] + 1)) = "UNKNOWN"
                             \/ /\ ExpectOf(At(buf, eqs[n] + 1)) # "ANY"
                                /\ ExpectOf(At(buf, eqs[n] + 1)) # DEBUG_GetType(m.heap, types[n])}
             IN  IF bad # {} \/ Len(types) # Len(eqs) THEN [m |-> m, ret |-> FALSE]
                 ELSE [m |-> RebindFrom(m, buf, eqs, types, 1), ret |-> TRUE]

DEBUG_FreeRegisteredTypedefs(m) == [m EXCEPT !.ktd = <<>>]

(***************************************************************************)
(* DEBUG_ParseTypedefStab                                                  *)
(***************************************************************************)
\* The kind of the skeleton the first loop allocates for a tag character;
\* "REF" is the '(' branch (no node yet), "UNKNOWN" the default branch.
SkeletonOf(ch) ==
    CASE ch = "*" -> "DT_POINTER"
      [] ch \in {"s", "u", "x"} -> "DT_STRUCT"
      [] ch = "a" -> "DT_ARRAY"
      [] ch = "(" -> "REF"
      [] ch \in {"1", "r"} -> "DT_BASIC"
      [] ch = "e" -> "DT_ENUM"
      [] ch = "f" -> "DT_FUNC"
      [] OTHER -> "UNKNOWN"

\* The name the first loop passes to DEBUG_NewDataType.
SkeletonName(buf, c, typename) ==
    CASE At(buf, c + 1) \in {"s", "u", "1", "r"} -> typename
      [] At(buf, c + 1) = "x" -> stab_strcpy(buf, c + 3)
      [] OTHER -> NULLNAME

RECURSIVE Pass1(_, _, _, _, _, _)

\* A variant of the turn that keeps typename until a skeleton has taken it.
Pass1AllocKeep(r, buf, eqs, k, typename, types) ==
    LET kind == SkeletonOf(At(buf, eqs[k] + 1))
        heap == DEBUG_NewDataType(r.m.heap, kind, SkeletonName(buf, eqs[k], typename))
        left == IF At(buf, eqs[k] + 1) \in {"s", "u", "1", "r"} THEN NULLNAME ELSE typename
    IN  IF r.m.abort \/ r.m.ub \/ kind = "UNKNOWN"
        THEN [m |-> r.m, types |-> types, ok |-> FALSE]
        ELSE IF kind = "REF"
        THEN Pass1(r.m, buf, eqs, k + 1, left, Append(types, 0))
        ELSE Pass1(SlotWrite([r.m EXCEPT !.heap = heap], r.slot, Len(heap)),
                   buf, eqs, k + 1, left, Append(types, Len(heap)))

\* One turn of the first loop: r is what DEBUG_ReadTypeEnumBackwards gave for
\* the k-th '='.
Pass1Alloc(r, buf, eqs, k, typename, types) ==
    LET kind == SkeletonOf(At(buf, eqs[k] + 1))
        heap == DEBUG_NewDataType(r.m.heap, kind, SkeletonName(buf, eqs[k], typename))
    IN  IF r.m.abort \/ r.m.ub \/ kind = "UNKNOWN"
        THEN [m |-> r.m, types |-> types, ok |-> FALSE]
        ELSE IF kind = "REF"
        THEN Pass1(r.m, buf, eqs, k + 1, NULLNAME, Append(types, 0))
        ELSE Pass1(SlotWrite([r.m EXCEPT !.heap = heap], r.slot, Len(heap)),
                   buf, eqs, k + 1, NULLNAME, Append(types, Len(heap)))

\* The first loop, from the k-th '=' on.  types is curr_types[0 .. ntypes-1].
Pass1(m, buf, eqs, k, typename, types) ==
    IF k > Len(eqs) THEN [m |-> m, types |-> types, ok |-> TRUE]
    ELSE Pass1Alloc(DEBUG_ReadTypeEnumBackwards(m, buf, eqs[k] - 1),
                    buf, eqs, k, typename, types)

\* if( *tc == '\0' ) *c = '\0'; else strcpy(c, src);
CutAt(buf, c, tc, src) ==
    IF At(buf, tc) = NUL THEN Poke(buf, c, NUL) ELSE Strcpy(buf, c, src)

\* A read at p beyond the text and its terminator.
Beyond(m, buf, p) == IF p > Len(buf) THEN [m EXCEPT !.ub = TRUE] ELSE m

\* The first ':' at or after tc (the scans for ':' do not stop at a
\* terminator); 0 when the scan leaves the buffer.
ColonFrom(buf, tc) ==
    LET hits == {q \in tc..Len(buf) : buf[q] = ":"}
    IN  IF hits = {} THEN 0 ELSE SetMin(hits)

\* element_name after the copy loop, read as a C string.
ElementName(buf, tc, colon) == CStr(SubSeq(buf, tc, colon - 1) \o <<NUL>>, 1)

\* case 'x'
Pass2Xref(m, buf, c) ==
    LET colon == ColonFrom(buf, c + 3)
    IN  IF colon = 0 THEN [m |-> [m EXCEPT !.ub = TRUE], buf |-> buf]
        ELSE [m |-> Beyond(m, buf, colon + 1), buf |-> CutAt(buf, c, colon + 1, colon + 1)]

\* A variant that makes the pointer point to itself.
Pass2PointerSelf(r, buf, c, curr_type) ==
    [m   |-> Beyond([r.m EXCEPT !.heap = DEBUG_SetPointerType(@, curr_type, curr_type)],
                    buf, r.x),
     buf |-> CutAt(buf, c, r.x, r.x)]

\* case '*', case 'f', r being what DEBUG_ReadTypeEnum gave
Pass2PointerSet(r, buf, c, curr_type) ==
    [m   |-> Beyond([r.m EXCEPT !.heap =
                       DEBUG_SetPointerType(@, curr_type, SlotRead(r.m, r.slot))],
                    buf, r.x),
     buf |-> CutAt(buf, c, r.x, r.x)]

\* case '*', case 'f'
Pass2Pointer(m, buf, c, curr_type) ==
    Pass2PointerSet(DEBUG_ReadTypeEnum(m, buf, c + 2), buf, c, curr_type)

\* case '(': the three-way branch on *dt and *dt2.  [m, val]: val is *dt as
\* read back through dt afterwards (through a dangling dt that is the
\* released cell, which holds what was last stored there).
Pass2RefBind(m, dt, dt2) ==
    IF m.abort \/ m.ub THEN [m |-> m, val |-> 0]
    ELSE IF SlotRead(m, dt) = 0 /\ SlotRead(m, dt2) # 0
    THEN [m |-> SlotWrite(m, dt, SlotRead(m, dt2)), val |-> SlotRead(m, dt2)]
    ELSE IF SlotRead(m, dt) = 0 /\ SlotRead(m, dt2) = 0
    THEN LET heap == DEBUG_NewDataType(m.heap, "DT_BASIC", NULLNAME)
         IN  [m |-> SlotWrite(SlotWrite([m EXCEPT !.heap = heap], dt, Len(heap)),
                              dt2, Len(heap)),
              val |-> Len(heap)]
    ELSE [m |-> m, val |-> SlotRead(m, dt)]

\* case '(': the cut of the reference, b being what the branch gave
Pass2RefCut(b, buf, c, x) ==
    [m |-> Beyond(b.m, buf, x), buf |-> CutAt(buf, c, x, x), val |-> b.val]

\* case '(', r being what DEBUG_ReadTypeEnum gave for dt2
Pass2RefTo(r, buf, c, dt) == Pass2RefCut(Pass2RefBind(r.m, dt, r.slot), buf, c, r.x)

\* case '('
Pass2Ref(m, buf, c, dt) == Pass2RefTo(DEBUG_ReadTypeEnum(m, buf, c + 1), buf, c, dt)

\* A variant that drops the sign of the bounds.
ArrayBoundsUnsigned(buf, tc) ==
    LET arrmin == Strtol(buf, tc + 1)
        arrmax == Strtol(buf, arrmin.end + 1)
    IN  [min |-> IF arrmin.val < 0 THEN -arrmin.val ELSE arrmin.val,
         max |-> IF arrmax.val < 0 THEN -arrmax.val ELSE arrmax.val,
         tc  |-> arrmax.end + 1]

\* arrmin = strtol(++tc, &tc, 10); arrmax = strtol(++tc, &tc, 10); tc++
ArrayBounds(buf, tc) ==
    LET arrmin == Strtol(buf, tc + 1)
        arrmax == Strtol(buf, arrmin.end + 1)
    IN  [min |-> arrmin.val, max |-> arrmax.val, tc |-> arrmax.end + 1]

\* case 'a', r2 being what DEBUG_ReadTypeEnum gave for the element type
Pass2ArraySet(r2, bounds, buf, c, curr_type) ==
    [m   |-> Beyond([r2.m EXCEPT !.heap =
                       DEBUG_SetArrayParams(@, curr_type, bounds.min, bounds.max,
                                            SlotRead(r2.m, r2.slot))],
                    buf, r2.x),
     buf |-> CutAt(buf, c, r2.x, r2.x)]

\* case 'a', r1 being what DEBUG_ReadTypeEnum gave for the index type
Pass2ArrayElem(r1, buf, c, curr_type) ==
    Pass2ArraySet(DEBUG_ReadTypeEnum(r1.m, buf, ArrayBounds(buf, r1.x).tc),
                  ArrayBounds(buf, r1.x), buf, c, curr_type)

\* case 'a'
Pass2Array(m, buf, c, curr_type) ==
    Pass2ArrayElem(DEBUG_ReadTypeEnum(m, buf, c + 3), buf, c, curr_type)

\* while( tc[0] != ';' && tc[1] != ';' ) tc++;
RECURSIVE SkipScan(_, _)
SkipScan(buf, tc) ==
    IF tc <= Len(buf) /\ At(buf, tc) # ";" /\ At(buf, tc + 1) # ";"
    THEN SkipScan(buf, tc + 1) ELSE tc

\* The structure was filled out before: skip to the end of the definition.
Pass2StructSkip(m, buf, c, tc0) ==
    LET tc == SkipScan(buf, tc0) + 2
    IN  [m |-> Beyond(m, buf, tc), buf |-> CutAt(buf, c, tc, tc + 1)]

RECURSIVE StructElements(_, _, _, _, _)

\* A variant that takes the element's size for its offset and its offset
\* for its size.
StructElementSwapped(r, buf, tc, colon, curr_type, failure) ==
    LET datatype == SlotRead(r.m, r.slot)
        buf1     == Poke(buf, r.x, NUL)
        offset   == Strtol(buf1, r.x + 1)
        size     == Strtol(buf1, offset.end + 1)
    IN  StructElements(IF datatype # 0
                       THEN [r.m EXCEPT !.heap =
                               DEBUG_AddStructElement(@, curr_type,
                                   ElementName(buf, tc, colon), datatype,
                                   size.val, offset.val)]
                       ELSE r.m,
                       buf1, size.end + 1, curr_type, failure \/ datatype = 0)

\* One element: r is what DEBUG_ReadTypeEnum gave for the type after the
\* element's ':'.
StructElement(r, buf, tc, colon, curr_type, failure) ==
    LET datatype == SlotRead(r.m, r.slot)
        buf1     == Poke(buf, r.x, NUL)
        offset   == Strtol(buf1, r.x + 1)
        size     == Strtol(buf1, offset.end + 1)
    IN  StructElements(IF datatype # 0
                       THEN [r.m EXCEPT !.heap =
                               DEBUG_AddStructElement(@, curr_type,
                                   ElementName(buf, tc, colon), datatype,
                                   offset.val, size.val)]
                       ELSE r.m,
                       buf1, size.end + 1, curr_type, failure \/ datatype = 0)

\* The loop over the elements of a structure or union, from tc on.
StructElements(m, buf, tc, curr_type, failure) ==
    IF m.abort \/ m.ub \/ tc > Len(buf)
    THEN [m |-> Beyond(m, buf, tc), buf |-> buf, tc |-> tc, failure |-> failure]
    ELSE IF At(buf, tc) = ";"
    THEN [m |-> m, buf |-> buf, tc |-> tc, failure |-> failure]
    ELSE IF ColonFrom(buf, tc) = 0
    THEN [m |-> [m EXCEPT !.ub = TRUE], buf |-> buf, tc |-> tc, failure |-> failure]
    ELSE StructElement(DEBUG_ReadTypeEnum(m, buf, ColonFrom(buf, tc) + 1),
                       buf, tc, ColonFrom(buf, tc), curr_type, failure)

\* After the elements: if(failure) *dt = NULL; then the cut, e being what
\* the loop gave.
Pass2StructEnd(e, c, dt) ==
    [m   |-> IF e.failure THEN SlotWrite(e.m, dt, 0) ELSE e.m,
     buf |-> CutAt(e.buf, c, e.tc, e.tc + 1)]

\* case 's', case 'u'
Pass2Struct(m, buf, c, dt, curr_type) ==
    LET size == Strtol(buf, c + 2)
    IN  IF ~DEBUG_SetStructSizeOk(m.heap, curr_type)
        THEN Pass2StructSkip(m, buf, c, size.end)
        ELSE Pass2StructEnd(
                 StructElements([m EXCEPT !.heap = DEBUG_SetStructSize(@, curr_type, size.val)],
                                buf, size.end, curr_type, FALSE),
                 c, dt)

\* The loop over the members of an enumeration, from tc on.
RECURSIVE EnumElements(_, _, _, _)
EnumElements(m, buf, tc, curr_type) ==
    IF tc > Len(buf) THEN [m |-> Beyond(m, buf, tc), tc |-> tc]
    ELSE IF At(buf, tc) = ";" THEN [m |-> m, tc |-> tc]
    ELSE LET colon == ColonFrom(buf, tc)
         IN  IF colon = 0 THEN [m |-> [m EXCEPT !.ub = TRUE], tc |-> tc]
             ELSE LET offset == Strtol(buf, colon + 1)
                  IN  EnumElements([m EXCEPT !.heap =
                                      DEBUG_AddStructElement(@, curr_type,
                                          ElementName(buf, tc, colon), 0, offset.val, 0)],
                                   buf, offset.end + 1, curr_type)

\* After the members: the cut, e being what the loop gave.
Pass2EnumEnd(e, buf, c) == [m |-> e.m, buf |-> CutAt(buf, c, e.tc, e.tc + 1)]

\* case 'e'
Pass2Enum(m, buf, c, curr_type) == Pass2EnumEnd(EnumElements(m, buf, c + 2, curr_type), buf, c)

RECURSIVE Pass2(_, _, _, _)

\* The end of a turn of the second loop for a tag other than '(' : r is
\* what the case gave.
Pass2Next(r, ntp, types) == Pass2(r.m, r.buf, ntp - 1, types)

\* A variant of the end of a turn for '(' that leaves ntp as it is.
Pass2RefStay(r, ntp, types) ==
    Pass2(r.m, r.buf, ntp,
          IF ntp + 1 >= 1 /\ ntp + 1 <= Len(types)
          THEN [types EXCEPT ![ntp + 1] = r.val] ELSE types)

\* The end of a turn for '(' : curr_types[ntp] = *dt.
Pass2RefNext(r, ntp, types) ==
    Pass2(r.m, r.buf, ntp - 1,
          IF ntp + 1 >= 1 /\ ntp + 1 <= Len(types)
          THEN [types EXCEPT ![ntp + 1] = r.val] ELSE types)

\* The switch of the second loop on the tag after the '=' at c: d is what
\* DEBUG_ReadTypeEnumBackwards gave for the number before it.
Pass2Switch(d, buf, c, ntp, types) ==
    LET curr_type == SlotRead(d.m, d.slot)
        tag       == At(buf, c + 1)
    IN  IF tag = "(" THEN Pass2RefNext(Pass2Ref(d.m, buf, c, d.slot), ntp, types)
        ELSE IF SkeletonOf(tag) = "UNKNOWN"
        THEN [m |-> d.m, buf |-> buf, ntp |-> ntp, types |-> types, ok |-> FALSE]
        ELSE Pass2Next(CASE tag = "x" -> Pass2Xref(d.m, buf, c)
                         [] tag \in {"*", "f"} -> Pass2Pointer(d.m, buf, c, curr_type)
                         [] tag \in {"1", "r"} -> [m |-> d.m, buf |-> Poke(buf, c, NUL)]
                         [] tag = "a" -> Pass2Array(d.m, buf, c, curr_type)
                         [] tag \in {"s", "u"} -> Pass2Struct(d.m, buf, c, d.slot, curr_type)
                         [] tag = "e" -> Pass2Enum(d.m, buf, c, curr_type),
                       ntp, types)

\* The second loop: ntp counts down from ntypes - 1, types is curr_types.
Pass2(m, buf, ntp, types) ==
    IF m.abort \/ m.ub THEN [m |-> m, buf |-> buf, ntp |-> ntp, types |-> types, ok |-> FALSE]
    ELSE IF Strrchr(buf, 1, "=") = 0
    THEN [m |-> m, buf |-> buf, ntp |-> ntp, types |-> types, ok |-> TRUE]
    ELSE Pass2Switch(DEBUG_ReadTypeEnumBackwards(m, buf, Strrchr(buf, 1, "=") - 1),
                     buf, Strrchr(buf, 1, "="), ntp, types)

\* After the second loop, p2 being what it gave: the definition is
\* registered unless the loop left at an unknown tag.
ParseTypedefEnd(p2, typename) ==
    IF ~p2.ok
    THEN [m |-> p2.m, buf |-> p2.buf, ret |-> FALSE, handled |-> FALSE, ntp |-> p2.ntp]
    ELSE [m |-> DEBUG_RegisterTypedef(p2.m, typename, p2.types),
          buf |-> p2.buf, ret |-> TRUE, handled |-> FALSE, ntp |-> p2.ntp]

\* After the first loop, p1 being what it gave.
ParseTypedefFill(p1, ptr, typename) ==
    IF ~p1.ok
    THEN [m |-> p1.m, buf |-> ptr, ret |-> FALSE, handled |-> FALSE, ntp |-> 0]
    ELSE ParseTypedefEnd(Pass2(p1.m, ptr, Len(p1.types) - 1, p1.types), typename)

\* After DEBUG_HandlePreviousTypedef, h being what it gave.
ParseTypedefNew(h, ptr, typename) ==
    IF h.ret
    THEN [m |-> h.m, buf |-> ptr, ret |-> TRUE, handled |-> TRUE, ntp |-> 0]
    ELSE ParseTypedefFill(Pass1(h.m, ptr, EqualsFrom(ptr, 1), 1, typename, <<>>),
                          ptr, typename)

\* [m, buf, ret, handled, ntp]: ret is the function's result, handled whether
\* DEBUG_HandlePreviousTypedef returned TRUE, ntp the scratch index at the end.
DEBUG_ParseTypedefStab(m, ptr, typename) ==
    ParseTypedefNew(DEBUG_HandlePreviousTypedef(m, typename, ptr), ptr, typename)

\* A variant that gives a copy of the node the slot holds.
StabTypeCopy(r) ==
    IF SlotRead(r.m, r.slot) = 0 THEN [m |-> r.m, type |-> 0]
    ELSE [m    |-> [r.m EXCEPT !.heap = Append(@, @[SlotRead(r.m, r.slot)])],
          type |-> Len(r.m.heap) + 1]

\* The content of the slot a reference names, r being what DEBUG_ReadTypeEnum gave.
StabTypeOf(r) == [m |-> r.m, type |-> SlotRead(r.m, r.slot)]

\* [m, type]: the data type a symbol's stab string names.
DEBUG_ParseStabType(m, stab) ==
    LET colon == Strchr(stab, 1, ":")
        c     == IF At(stab, colon + 1) # "(" THEN colon + 2 ELSE colon + 1
    IN  IF colon = 0 THEN [m |-> m, type |-> 0]
        ELSE StabTypeOf(DEBUG_ReadTypeEnum(Beyond(m, stab, c), stab, c))

(***************************************************************************)
(* The stab types (n_type)                                                 *)
(***************************************************************************)
N_UNDF == 0
N_GSYM == 32
N_FUN == 36
N_STSYM == 38
N_LCSYM == 40
N_MAIN == 42
N_ROSYM == 44
N_OPT == 60
N_RSYM == 64
N_SLINE == 68
N_SO == 100
N_LSYM == 128
N_BINCL == 130
N_SOL == 132
N_PSYM == 160
N_EINCL == 162
N_LBRAC == 192
N_EXCL == 194
N_RBRAC == 224

(***************************************************************************)
(* The input: the string table (strs) and the raw records drawn from it.   *)
(***************************************************************************)
TxEmpty == S("")
TxOpt == S("gcc2_compiled.")
TxContA == S("A:t5=*6\\")
TxContB == S("=*5\\")
TxMarker == S("\\")
TxBadTag == S("Z:t9=q1")
TxA == S("A:t5=s8p:6=*5,0,32;q:6,32,32;;")
TxA3 == S("A:t7=s12p:8=*7,0,32;q:8,32,32;r:8,64,32;;")
TxAx == S("A:t5=*6=*5")
TxA1 == S("A:t5=*6")
TxB == S("B:t5=s8p:6=*5,0,32;q:9,32,32;;")
TxRef == S("c:t7=*8=(0,5)")
TxInt == S("int:t1=r1;-2147483648;2147483647;")
TxFoo == S("foo:t5=s8x:1,0,32;y:1,32,32;;")
TxVar == S("v:G5")
TxMainC == S("/src/main.c")
TxHdr == S("header.h")
TxIncT == S("H:t(1,3)=*(1,4)=s4a:(1,3),0,32;;")
TxIncRef == S("h:G(1,3)")
TxBar == S("bar:t6=ar1;0;9;5")
TxNeg == S("neg:t7=ar1;-1;10;5")
TxVec == S("v:t8=ar1;0;9;9=*5")
TxVecNeg == S("v:t8=ar1;-1;10;9=*5")
TxFn == S("main:F1")
TxAnon == S(":F1")
TxParm == S("x:p1")
TxSoA == S("/src/\\")
TxSoB == S("main.c")
TxAlias == S("e:t6=(0,1)")
TxFwd == S("d:t5=(0,9)")
TxBack == S("b:t1=(0,6)")
TxWide == S("w:t12=*10")
TxPtrS == S("P:t5=*6=s4a:9,0,32;;")
TxXref == S("X:t7=*8=xsfoo:")
TxNegSub == S("n:t5=*-1")
TxNegFile == S("m:t5=*(-1,3)")
\* A piece of 21845 characters of a continued record, with its marker.
TxLong == [k \in 1..21845 |-> "a"] \o S("\\")
\* A definition of 65536 characters.
TxHuge == S("h:t1=") \o [k \in 1..65531 |-> "a"]
TxDup1 == S("A:t5=s4a:5=s4b:1,0,32;;,0,32;;")
TxDup2 == S("B:t6=s8a:6=s4b:1,0,32;;,0,32;c:1,32,32;;")

StrTab ==
    << TxEmpty, TxOpt, TxContA, TxContB, TxMarker, TxBadTag, TxA, TxA3, TxAx, TxA1,
       TxB, TxRef,
       TxInt, TxFoo, TxVar, TxMainC, TxHdr, TxIncT, TxIncRef,
       TxBar, TxNeg, TxVec, TxVecNeg,
       TxFn, TxAnon, TxParm, TxSoA, TxSoB,
       TxAlias, TxFwd, TxBack, TxDup1, TxDup2, TxWide, TxPtrS,
       TxXref, TxNegSub, TxNegFile, TxLong, TxHuge >>

RECURSIVE BlobFrom(_)
BlobFrom(k) == IF k > Len(StrTab) THEN <<>> ELSE StrTab[k] \o <<NUL>> \o BlobFrom(k + 1)

\* The bytes at addr + strtaboff.
Blob == BlobFrom(1)

\* n_strx of a text of the string table.
Off(text) ==
    CHOOSE o \in 0..(Len(Blob) - 1) :
        /\ o = 0 \/ Blob[o] = NUL
        /\ CStr(Blob, o + 1) = text
        /\ \A o2 \in 0..(o - 1) : ~((o2 = 0 \/ Blob[o2] = NUL) /\ CStr(Blob, o2 + 1) = text)

\* n_strx of the empty text that is the terminator of a text.
OffEnd(text) == Off(text) + Len(text)

Stab(type, desc, value, strx) ==
    [n_type |-> type, n_desc |-> desc, n_value |-> value, n_strx |-> strx]

load_offset == 4096

stabbufflen0 == 65536

(***************************************************************************)
(* State                                                                   *)
(***************************************************************************)
VARIABLES
    run,                \* "running", "done", "aborted" (assert), "undefined"
    nstab,              \* the number of raw records (stablen / sizeof(struct stab_nlist))
    i,                  \* the loop index of DEBUG_ParseStabs
    strs, strtabinc,    \* the string table base (an offset into Blob) and its increment
    stabbuff,           \* the C string held by stabbuff
    stabbufflen,
    heap,               \* the data type nodes
    ktd_head,
    include_defs, cu_include_stack, cu_include_stk_idx, cu_vector,
    curr_func, currpath, subpath, in_external_file,
    out,                \* the calls made to the symbol table during the last iteration
    last,               \* what the last iteration did
    group,              \* the raw texts of the records joined so far into stabbuff
    peer                \* the locals of a second call of DEBUG_ParseStabs, when there is one

vars ==
    << run, nstab, i, strs, strtabinc, stabbuff, stabbufflen, heap, ktd_head, include_defs,
       cu_include_stack, cu_include_stk_idx, cu_vector, curr_func, currpath, subpath,
       in_external_file, out, last, group, peer >>

\* curr_func == NULL: no symbol has an empty name.
NoFunc == [sym |-> <<>>, rec |-> 0]

NoPath == [kind |-> "null", text |-> <<>>]

NoLast ==
    [kind |-> "none", tag |-> 0, value |-> 0, raw |-> <<>>, group |-> <<>>, text |-> <<>>,
     parsed |-> FALSE, handled |-> FALSE, ret |-> TRUE, ntp |-> 0, lost |-> FALSE,
     left |-> <<>>]

\* The locals of a call of DEBUG_ParseStabs when it enters its loop over n
\* records; id tells the calls apart.
LocalsAtEntry(id, n) ==
    [id |-> id, run |-> "running", nstab |-> n, i |-> 0, strs |-> 0, strtabinc |-> 0,
     stabbuff |-> <<>>, stabbufflen |-> stabbufflen0, curr_func |-> NoFunc,
     currpath |-> <<>>, subpath |-> NoPath, in_external_file |-> FALSE, group |-> <<>>]

\* There is no second call.
NoPeer == [LocalsAtEntry(2, 0) EXCEPT !.run = "none"]

\* The state when DEBUG_ParseStabs enters its loop over n records.
InitOf(n) ==
    /\ peer = NoPeer
    /\ run = "running"
    /\ nstab = n
    /\ i = 0
    /\ strs = 0
    /\ strtabinc = 0
    /\ stabbuff = <<>>
    /\ stabbufflen = stabbufflen0
    /\ heap = <<>>
    /\ ktd_head = <<>>
    /\ include_defs = <<>>
    /\ cu_include_stack = <<>>
    /\ cu_include_stk_idx = 0
    /\ cu_vector = <<>>
    /\ curr_func = NoFunc
    /\ currpath = <<>>
    /\ subpath = NoPath
    /\ in_external_file = FALSE
    /\ out = <<>>
    /\ last = NoLast
    /\ group = <<>>

\* The globals of stabs.c as the record the parser's operators thread.
Globals(moved) ==
    [heap |-> heap, cu |-> cu_vector, defs |-> include_defs, stk |-> cu_include_stack,
     idx |-> cu_include_stk_idx, ktd |-> ktd_head, abort |-> FALSE, ub |-> FALSE,
     lost |-> FALSE, moved |-> moved]

\* The locals of DEBUG_ParseStabs that live across iterations.
Locals ==
    [curr_func |-> curr_func, currpath |-> currpath, subpath |-> subpath,
     in_external_file |-> in_external_file, strs |-> strs, strtabinc |-> strtabinc]

(***************************************************************************)
(* The cases of the switch on n_type in DEBUG_ParseStabs.  Each takes the  *)
(* globals m, the locals g, the record, the buffer ptr points to, whether  *)
(* ptr is stabbuff, and the loop index; each yields [m, g, out].  A case   *)
(* that calls DEBUG_ParseStabType(ptr) takes what the call gives as t.     *)
(***************************************************************************)
\* The handle DEBUG_AddSymbol returns: the symbol made by record idx.
SymbolOf(name, idx) == [sym |-> name, rec |-> idx]

\* case N_GSYM (flags SYM_WINE|SYM_DATA|SYM_INVALID), N_LCSYM and N_STSYM
CaseData(t, g, rec, ptr, flags) ==
    [m |-> t.m, g |-> g,
     out |-> <<[call |-> "DEBUG_AddSymbol", name |-> stab_strcpy(ptr, 1),
                type |-> t.type, addr |-> load_offset + rec.n_value,
                path |-> g.currpath, flags |-> flags]>>]

\* A variant of case N_PSYM, N_RSYM, N_LSYM that does not test
\* in_external_file.
CaseLocalAnyFile(m, t, g, rec, ptr, regno, offset) ==
    IF g.curr_func # NoFunc
    THEN [m |-> t.m, g |-> g,
          out |-> <<[call |-> "DEBUG_AddLocal", func |-> g.curr_func, regno |-> regno,
                     offset |-> offset, name |-> stab_strcpy(ptr, 1)],
                    [call |-> "DEBUG_SetLocalSymbolType", type |-> t.type]>>]
    ELSE [m |-> m, g |-> g, out |-> <<>>]

\* case N_PSYM, N_RSYM, N_LSYM
CaseLocal(m, t, g, rec, ptr, regno, offset) ==
    IF g.curr_func # NoFunc /\ ~g.in_external_file
    THEN [m |-> t.m, g |-> g,
          out |-> <<[call |-> "DEBUG_AddLocal", func |-> g.curr_func, regno |-> regno,
                     offset |-> offset, name |-> stab_strcpy(ptr, 1)],
                    [call |-> "DEBUG_SetLocalSymbolType", type |-> t.type]>>]
    ELSE [m |-> m, g |-> g, out |-> <<>>]

\* case N_SLINE
CaseSline(m, g, rec) ==
    IF g.curr_func # NoFunc /\ ~g.in_external_file
    THEN [m |-> m, g |-> g,
          out |-> <<[call |-> "DEBUG_AddLineNumber", func |-> g.curr_func,
                     line |-> rec.n_desc, offset |-> rec.n_value]>>]
    ELSE [m |-> m, g |-> g, out |-> <<>>]

\* A variant of case N_FUN that leaves the current function alone in an
\* external file.
CaseFunKeep(m, t, g, rec, ptr, idx) ==
    LET flush   == <<[call |-> "DEBUG_Normalize", func |-> g.curr_func]>>
        symname == stab_strcpy(ptr, 1)
    IN  IF ~g.in_external_file /\ symname # <<>>
        THEN [m |-> t.m, g |-> [g EXCEPT !.curr_func = SymbolOf(symname, idx)],
              out |-> flush \o
                      <<[call |-> "DEBUG_AddSymbol", name |-> symname, type |-> t.type,
                         addr |-> load_offset + rec.n_value, path |-> g.currpath,
                         flags |-> "SYM_WINE|SYM_FUNC|SYM_INVALID"]>>]
        ELSE IF g.in_external_file THEN [m |-> m, g |-> g, out |-> flush]
        ELSE [m |-> m, g |-> [g EXCEPT !.curr_func = NoFunc], out |-> flush]

\* case N_FUN
CaseFun(m, t, g, rec, ptr, idx) ==
    LET flush   == <<[call |-> "DEBUG_Normalize", func |-> g.curr_func]>>
        symname == stab_strcpy(ptr, 1)
    IN  IF ~g.in_external_file /\ symname # <<>>
        THEN [m |-> t.m, g |-> [g EXCEPT !.curr_func = SymbolOf(symname, idx)],
              out |-> flush \o
                      <<[call |-> "DEBUG_AddSymbol", name |-> symname, type |-> t.type,
                         addr |-> load_offset + rec.n_value, path |-> g.currpath,
                         flags |-> "SYM_WINE|SYM_FUNC|SYM_INVALID"]>>]
        ELSE [m |-> m, g |-> [g EXCEPT !.curr_func = NoFunc], out |-> flush]

\* A variant of case N_SO that calls DEBUG_ResetIncludes for an empty text
\* too.
CaseSoReset(m, g, rec, ptr, inbuff) ==
    LET text == CStr(ptr, 1)
    IN  IF text = <<>>
        THEN [m |-> DEBUG_ResetIncludes(m),
              g |-> [g EXCEPT !.currpath = <<>>, !.curr_func = NoFunc],
              out |-> <<[call |-> "DEBUG_Normalize", func |-> g.curr_func]>>]
        ELSE [m |-> DEBUG_ResetIncludes(m),
              g |-> [g EXCEPT !.currpath = IF text[1] # "/" THEN @ \o text ELSE text,
                              !.subpath = [kind |-> IF inbuff THEN "stabbuff" ELSE "strtab",
                                           text |-> IF inbuff THEN <<>> ELSE text]],
              out |-> <<>>]

\* case N_SO
CaseSo(m, g, rec, ptr, inbuff) ==
    LET text == CStr(ptr, 1)
    IN  IF text = <<>>
        THEN [m |-> m, g |-> [g EXCEPT !.currpath = <<>>, !.curr_func = NoFunc],
              out |-> <<[call |-> "DEBUG_Normalize", func |-> g.curr_func]>>]
        ELSE [m |-> DEBUG_ResetIncludes(m),
              g |-> [g EXCEPT !.currpath = IF text[1] # "/" THEN @ \o text ELSE text,
                              !.subpath = [kind |-> IF inbuff THEN "stabbuff" ELSE "strtab",
                                           text |-> IF inbuff THEN <<>> ELSE text]],
              out |-> <<>>]

\* strcmp(ptr, subpath) == 0.  A subpath that points into stabbuff names what
\* stabbuff holds now: ptr itself when ptr is stabbuff, the empty string
\* otherwise (stabbuff[0] is '\0' after every record).
SameAsSubpath(g, ptr, inbuff) ==
    IF g.subpath.kind = "strtab" THEN CStr(ptr, 1) = g.subpath.text
    ELSE inbuff \/ CStr(ptr, 1) = <<>>

\* A variant of case N_SOL that takes an empty text for the main source.
CaseSolEmptyMain(m, g, rec, ptr, inbuff) ==
    [m |-> m,
     g |-> [g EXCEPT !.in_external_file =
               ~(g.subpath.kind = "null" \/ CStr(ptr, 1) = <<>>
                 \/ SameAsSubpath(g, ptr, inbuff))],
     out |-> <<>>]

\* case N_SOL
CaseSol(m, g, rec, ptr, inbuff) ==
    [m |-> m,
     g |-> [g EXCEPT !.in_external_file =
               ~(g.subpath.kind = "null" \/ SameAsSubpath(g, ptr, inbuff))],
     out |-> <<>>]

\* A variant of case N_UNDF that moves the base by the record's own value.
CaseUndfAtOnce(m, g, rec) ==
    [m |-> m,
     g |-> [g EXCEPT !.strs = @ + rec.n_value, !.strtabinc = rec.n_value,
                     !.curr_func = NoFunc],
     out |-> <<[call |-> "DEBUG_Normalize", func |-> g.curr_func]>>]

\* case N_UNDF
CaseUndf(m, g, rec) ==
    [m |-> m,
     g |-> [g EXCEPT !.strs = @ + g.strtabinc, !.strtabinc = rec.n_value,
                     !.curr_func = NoFunc],
     out |-> <<[call |-> "DEBUG_Normalize", func |-> g.curr_func]>>]

\* A variant of case N_BINCL that creates an include_def only when none has
\* the name and the value.
CaseBinclLookup(m, g, rec, ptr) ==
    [m |-> IF DEBUG_FindInclude(m, CStr(ptr, 1), rec.n_value) >= 0
           THEN DEBUG_AddInclude(m, DEBUG_FindInclude(m, CStr(ptr, 1), rec.n_value))
           ELSE DEBUG_AddInclude(DEBUG_CreateInclude(m, CStr(ptr, 1), rec.n_value),
                                 Len(m.defs)),
     g |-> g, out |-> <<>>]

\* case N_BINCL
CaseBincl(m, g, rec, ptr) ==
    [m |-> DEBUG_AddInclude(DEBUG_CreateInclude(m, CStr(ptr, 1), rec.n_value), Len(m.defs)),
     g |-> g, out |-> <<>>]

\* case N_EXCL
CaseExcl(m, g, rec, ptr) ==
    [m |-> DEBUG_AddInclude(m, DEBUG_FindInclude(m, CStr(ptr, 1), rec.n_value)),
     g |-> g, out |-> <<>>]

\* A variant that takes the include file on top off the include stack.
CasePop(m, g) ==
    [m |-> [m EXCEPT !.idx = IF @ > 0 THEN @ - 1 ELSE @], g |-> g, out |-> <<>>]

\* case N_RBRAC, N_LBRAC, N_OPT, N_EINCL, N_MAIN and default
CaseNothing(m, g) == [m |-> m, g |-> g, out |-> <<>>]

Dispatch(m, g, rec, ptr, inbuff, idx) ==
    CASE rec.n_type = N_GSYM ->
             CaseData(DEBUG_ParseStabType(m, ptr), g, rec, ptr, "SYM_WINE|SYM_DATA|SYM_INVALID")
      [] rec.n_type \in {N_LCSYM, N_STSYM} ->
             CaseData(DEBUG_ParseStabType(m, ptr), g, rec, ptr, "SYM_WINE|SYM_DATA")
      [] rec.n_type \in {N_PSYM, N_LSYM} ->
             CaseLocal(m, DEBUG_ParseStabType(m, ptr), g, rec, ptr, 0, rec.n_value)
      [] rec.n_type = N_RSYM ->
             CaseLocal(m, DEBUG_ParseStabType(m, ptr), g, rec, ptr, rec.n_value + 1, 0)
      [] rec.n_type = N_SLINE -> CaseSline(m, g, rec)
      [] rec.n_type = N_FUN -> CaseFun(m, DEBUG_ParseStabType(m, ptr), g, rec, ptr, idx)
      [] rec.n_type = N_SO -> CaseSo(m, g, rec, ptr, inbuff)
      [] rec.n_type = N_SOL -> CaseSol(m, g, rec, ptr, inbuff)
      [] rec.n_type = N_UNDF -> CaseUndf(m, g, rec)
      [] rec.n_type = N_BINCL -> CaseBincl(m, g, rec, ptr)
      [] rec.n_type = N_EXCL -> CaseExcl(m, g, rec, ptr)
      [] OTHER -> CaseNothing(m, g)

(***************************************************************************)
(* One iteration of the loop of DEBUG_ParseStabs                           *)
(***************************************************************************)
\* ptr = strs + n_un.n_name, as a C string
RawText(rec) == CStr(Blob, strs + rec.n_strx + 1)

\* A variant that finds no marker at the end of any text.
LastByteNone(rec, pre) == NUL

\* ptr[strlen(ptr) - 1].  For an empty text that is the byte before the text:
\* a byte of the string table, or, before the table's first byte, a byte
\* pre that is not the table's.
LastByte(rec, pre) ==
    LET raw == RawText(rec)
    IN  IF raw # <<>> THEN raw[Len(raw)]
        ELSE IF strs + rec.n_strx >= 1 THEN Blob[strs + rec.n_strx]
        ELSE pre

\* The text ptr points to once a continued record is complete.
Joined(raw) == IF stabbuff # <<>> THEN stabbuff \o raw ELSE raw

HasEquals(text) == \E k \in 1..Len(text) : text[k] = "="

\* stabbufflen after the test before strncat
GrownFor(raw) ==
    IF Len(stabbuff) + Len(raw) > stabbufflen THEN stabbufflen + 65536 ELSE stabbufflen

\* strncat(stabbuff, ptr, len - 1) writes beyond the buffer as grown
ContinuationOverflows(raw) == Len(stabbuff) + Len(raw) > GrownFor(raw)

\* strcat(stabbuff, ptr) or strcpy(stabbuff, ptr) writes beyond the buffer:
\* neither is preceded by a test of the length
Overflows(raw) ==
    \/ stabbuff # <<>> /\ Len(stabbuff) + Len(raw) + 1 > stabbufflen
    \/ stabbuff = <<>> /\ HasEquals(raw) /\ Len(raw) + 1 > stabbufflen

\* The call of DEBUG_ParseTypedefStab for a text with '=', after the copy
\* into stabbuff; for a text without, the state as it is.
TypedefPart(text, moved) ==
    IF HasEquals(text)
    THEN DEBUG_ParseTypedefStab(Globals(moved), text \o <<NUL>>, stab_strcpy(text, 1))
    ELSE [m |-> Globals(moved), buf |-> text \o <<NUL>>, ret |-> TRUE,
          handled |-> FALSE, ntp |-> 0]

LastOf(kind, rec, raw, text, pt) ==
    [kind |-> kind, tag |-> rec.n_type, value |-> rec.n_value, raw |-> raw, group |-> Append(group, raw),
     text |-> text, parsed |-> HasEquals(text), handled |-> pt.handled, ret |-> pt.ret,
     ntp |-> pt.ntp, lost |-> FALSE, left |-> CStr(pt.buf, 1)]

\* "abort" (an assert failed), "undefined", or else the kind given.
KindOf(m, kind) == IF m.abort THEN "abort" ELSE IF m.ub THEN "undefined" ELSE kind

\* The end of the iteration, d being what the switch gave.
AfterSwitch(d, pt, rec, raw, text) ==
    [kind |-> KindOf(d.m, "dispatch"), m |-> d.m, g |-> d.g, out |-> d.out,
     stabbuff |-> <<>>, stabbufflen |-> stabbufflen,
     last |-> [LastOf(KindOf(d.m, "dispatch"), rec, raw, text, pt) EXCEPT !.lost = d.m.lost]]

\* A variant that goes on to the switch whatever DEBUG_ParseTypedefStab
\* returned.
AfterTypedefNoSkip(pt, rec, raw, text) ==
    AfterSwitch(Dispatch(pt.m, Locals, rec, pt.buf, stabbuff # <<>> \/ HasEquals(text), i),
                pt, rec, raw, text)

\* The iteration from the '=' test on, pt being what TypedefPart gave.
AfterTypedef(pt, rec, raw, text) ==
    IF pt.m.abort \/ pt.m.ub \/ ~pt.ret
    THEN [kind |-> KindOf(pt.m, "skip"), m |-> pt.m, g |-> Locals, out |-> <<>>,
          stabbuff |-> <<>>, stabbufflen |-> stabbufflen,
          last |-> [LastOf(KindOf(pt.m, "skip"), rec, raw, text, pt) EXCEPT
                       !.lost = pt.m.lost]]
    ELSE AfterSwitch(Dispatch(pt.m, Locals, rec, pt.buf, stabbuff # <<>> \/ HasEquals(text), i),
                     pt, rec, raw, text)

\* The whole iteration for one raw record: [kind, m, g, out, stabbuff,
\* stabbufflen, last].  kind is "continue" (the record is continued),
\* "skip" (the definition is skipped), "dispatch" (the switch was reached),
\* "abort" (an assert failed) or "undefined".
LoopBody(rec, pre, moved) ==
    LET raw == RawText(rec)
    IN  IF strs + rec.n_strx < 0 \/ strs + rec.n_strx >= Len(Blob)
        THEN [kind |-> "undefined", m |-> Globals(moved), g |-> Locals, out |-> <<>>,
              stabbuff |-> stabbuff, stabbufflen |-> stabbufflen,
              last |-> [NoLast EXCEPT !.kind = "undefined", !.tag = rec.n_type,
                                      !.value = rec.n_value]]
        ELSE IF LastByte(rec, pre) = "\\" /\ ContinuationOverflows(raw)
        THEN [kind |-> "undefined", m |-> Globals(moved), g |-> Locals, out |-> <<>>,
              stabbuff |-> stabbuff \o SubSeq(raw, 1, Len(raw) - 1),
              stabbufflen |-> GrownFor(raw),
              last |-> [NoLast EXCEPT !.kind = "undefined", !.tag = rec.n_type,
                                      !.value = rec.n_value, !.raw = raw]]
        ELSE IF LastByte(rec, pre) = "\\"
        THEN [kind |-> "continue", m |-> Globals(moved), g |-> Locals, out |-> <<>>,
              stabbuff |-> stabbuff \o SubSeq(raw, 1, Len(raw) - 1),
              stabbufflen |-> GrownFor(raw),
              last |-> [NoLast EXCEPT !.kind = "continue", !.tag = rec.n_type,
                                      !.value = rec.n_value, !.raw = raw, !.group = Append(group, raw)]]
        ELSE IF Overflows(raw)
        THEN [kind |-> "undefined", m |-> Globals(moved), g |-> Locals, out |-> <<>>,
              stabbuff |-> Joined(raw), stabbufflen |-> stabbufflen,
              last |-> [NoLast EXCEPT !.kind = "undefined", !.tag = rec.n_type,
                                      !.value = rec.n_value, !.raw = raw]]
        ELSE AfterTypedef(TypedefPart(Joined(raw), moved), rec, raw, Joined(raw))

\* The state after the iteration r, when it ended the way kind.
Commit(r, kind) ==
    /\ r.kind = kind
    /\ run' = CASE r.kind = "abort" -> "aborted"
                [] r.kind = "undefined" -> "undefined"
                [] OTHER -> "running"
    /\ i' = i + 1
    /\ nstab' = nstab
    /\ strs' = r.g.strs
    /\ strtabinc' = r.g.strtabinc
    /\ stabbuff' = r.stabbuff
    /\ stabbufflen' = r.stabbufflen
    /\ heap' = r.m.heap
    /\ ktd_head' = r.m.ktd
    /\ include_defs' = r.m.defs
    /\ cu_include_stack' = r.m.stk
    /\ cu_include_stk_idx' = r.m.idx
    /\ cu_vector' = r.m.cu
    /\ curr_func' = r.g.curr_func
    /\ currpath' = r.g.currpath
    /\ subpath' = r.g.subpath
    /\ in_external_file' = r.g.in_external_file
    /\ out' = r.out
    /\ last' = r.last
    /\ group' = IF r.kind = "continue" THEN r.last.group ELSE <<>>
    /\ peer' = peer

Running == run = "running" /\ i < nstab

\* The values a byte before the string table may have.
PreBytes(rec) ==
    IF RawText(rec) = <<>> /\ strs + rec.n_strx = 0 THEN {NUL, "\\"} ELSE {NUL}

\* DBG_realloc may grow a table in place or move it.
Moves(rec) == IF HasEquals(Joined(RawText(rec))) THEN BOOLEAN ELSE {FALSE}

(***************************************************************************)
(* Actions: one per way an iteration ends, and per case of the switch      *)
(***************************************************************************)
\* The record's text ends in '\\': it is appended to stabbuff (continue)
Continuation(rec) ==
    /\ Running
    /\ \E pre \in PreBytes(rec) :
          Commit(LoopBody(rec, pre, FALSE), "continue")

\* DEBUG_ParseTypedefStab returned FALSE: the definition is skipped (continue)
SkipDefinition(rec) ==
    /\ Running
    /\ \E pre \in PreBytes(rec), moved \in Moves(rec) :
          Commit(LoopBody(rec, pre, moved), "skip")

\* An assert fails during the iteration
AssertFails(rec) ==
    /\ Running
    /\ \E pre \in PreBytes(rec), moved \in Moves(rec) :
          Commit(LoopBody(rec, pre, moved), "abort")

\* The iteration reads or writes outside every object
Undefined(rec) ==
    /\ Running
    /\ \E pre \in PreBytes(rec), moved \in Moves(rec) :
          Commit(LoopBody(rec, pre, moved), "undefined")

\* The iteration reaches the switch
Case(rec) ==
    /\ Running
    /\ \E pre \in PreBytes(rec), moved \in Moves(rec) :
          Commit(LoopBody(rec, pre, moved), "dispatch")

\* case N_GSYM
StabGsym(rec) ==
    /\ rec.n_type = N_GSYM
    /\ Case(rec)

\* case N_RBRAC, N_LBRAC
StabBrac(rec) ==
    /\ rec.n_type \in {N_RBRAC, N_LBRAC}
    /\ Case(rec)

\* case N_LCSYM, N_STSYM
StabStatic(rec) ==
    /\ rec.n_type \in {N_LCSYM, N_STSYM}
    /\ Case(rec)

\* case N_PSYM
StabPsym(rec) ==
    /\ rec.n_type = N_PSYM
    /\ Case(rec)

\* case N_RSYM
StabRsym(rec) ==
    /\ rec.n_type = N_RSYM
    /\ Case(rec)

\* case N_LSYM
StabLsym(rec) ==
    /\ rec.n_type = N_LSYM
    /\ Case(rec)

\* case N_SLINE
StabSline(rec) ==
    /\ rec.n_type = N_SLINE
    /\ Case(rec)

\* case N_FUN
StabFun(rec) ==
    /\ rec.n_type = N_FUN
    /\ Case(rec)

\* case N_SO
StabSo(rec) ==
    /\ rec.n_type = N_SO
    /\ Case(rec)

\* case N_SOL
StabSol(rec) ==
    /\ rec.n_type = N_SOL
    /\ Case(rec)

\* case N_UNDF
StabUndf(rec) ==
    /\ rec.n_type = N_UNDF
    /\ Case(rec)

\* case N_OPT
StabOpt(rec) ==
    /\ rec.n_type = N_OPT
    /\ Case(rec)

\* case N_BINCL
StabBincl(rec) ==
    /\ rec.n_type = N_BINCL
    /\ Case(rec)

\* case N_EINCL
StabEincl(rec) ==
    /\ rec.n_type = N_EINCL
    /\ Case(rec)

\* case N_EXCL
StabExcl(rec) ==
    /\ rec.n_type = N_EXCL
    /\ Case(rec)

\* case N_MAIN
StabMain(rec) ==
    /\ rec.n_type = N_MAIN
    /\ Case(rec)

\* A variant of the switch between two calls in which the call switched to
\* finds the resolver's tables and the registry empty.
YieldFresh ==
    /\ peer.run = "running"
    /\ run \in {"running", "done"}
    /\ peer' = [id |-> 3 - peer.id, run |-> run, nstab |-> nstab, i |-> i, strs |-> strs,
                strtabinc |-> strtabinc, stabbuff |-> stabbuff, stabbufflen |-> stabbufflen,
                curr_func |-> curr_func, currpath |-> currpath, subpath |-> subpath,
                in_external_file |-> in_external_file, group |-> group]
    /\ run' = peer.run
    /\ nstab' = peer.nstab
    /\ i' = peer.i
    /\ strs' = peer.strs
    /\ strtabinc' = peer.strtabinc
    /\ stabbuff' = peer.stabbuff
    /\ stabbufflen' = peer.stabbufflen
    /\ curr_func' = peer.curr_func
    /\ currpath' = peer.currpath
    /\ subpath' = peer.subpath
    /\ in_external_file' = peer.in_external_file
    /\ group' = peer.group
    /\ out' = <<>>
    /\ last' = [NoLast EXCEPT !.kind = "yield"]
    /\ ktd_head' = <<>>
    /\ include_defs' = <<>>
    /\ cu_include_stk_idx' = 0
    /\ cu_vector' = <<>>
    /\ UNCHANGED << heap, cu_include_stack >>

\* Two calls of DEBUG_ParseStabs in one process, interleaved at the
\* boundaries of the loop's iterations: the other call goes on.  The locals
\* of the two calls change places; ktd_head, include_defs, cu_vector and the
\* include stack are file-scope statics, the same for both.
Yield ==
    /\ peer.run = "running"
    /\ run \in {"running", "done"}
    /\ peer' = [id |-> 3 - peer.id, run |-> run, nstab |-> nstab, i |-> i, strs |-> strs,
                strtabinc |-> strtabinc, stabbuff |-> stabbuff, stabbufflen |-> stabbufflen,
                curr_func |-> curr_func, currpath |-> currpath, subpath |-> subpath,
                in_external_file |-> in_external_file, group |-> group]
    /\ run' = peer.run
    /\ nstab' = peer.nstab
    /\ i' = peer.i
    /\ strs' = peer.strs
    /\ strtabinc' = peer.strtabinc
    /\ stabbuff' = peer.stabbuff
    /\ stabbufflen' = peer.stabbufflen
    /\ curr_func' = peer.curr_func
    /\ currpath' = peer.currpath
    /\ subpath' = peer.subpath
    /\ in_external_file' = peer.in_external_file
    /\ group' = peer.group
    /\ out' = <<>>
    /\ last' = [NoLast EXCEPT !.kind = "yield"]
    /\ UNCHANGED << heap, ktd_head, include_defs, cu_include_stack, cu_include_stk_idx,
                    cu_vector >>

\* A variant of the end of the loop that leaves the registry of typedefs.
EndOfRunKeepsTypedefs ==
    /\ run = "running"
    /\ i = nstab
    /\ run' = "done"
    /\ include_defs' = <<>>
    /\ cu_include_stk_idx' = 0
    /\ cu_vector' = <<>>
    /\ out' = <<>>
    /\ last' = [NoLast EXCEPT !.kind = "end"]
    /\ UNCHANGED << nstab, i, strs, strtabinc, stabbuff, stabbufflen, heap, ktd_head,
                    cu_include_stack, curr_func, currpath, subpath, in_external_file, group, peer >>

\* A variant that may leave the loop before the last record.
EndOfRunEarly ==
    /\ run = "running"
    /\ i <= nstab
    /\ run' = "done"
    /\ ktd_head' = <<>>
    /\ include_defs' = <<>>
    /\ cu_include_stk_idx' = 0
    /\ cu_vector' = <<>>
    /\ out' = <<>>
    /\ last' = [NoLast EXCEPT !.kind = "end"]
    /\ UNCHANGED << nstab, i, strs, strtabinc, stabbuff, stabbufflen, heap, cu_include_stack,
                    curr_func, currpath, subpath, in_external_file, group, peer >>

\* The end of the loop: the registry, the includes and curr_types are freed.
EndOfRun ==
    /\ run = "running"
    /\ i = nstab
    /\ run' = "done"
    /\ ktd_head' = <<>>
    /\ include_defs' = <<>>
    /\ cu_include_stk_idx' = 0
    /\ cu_vector' = <<>>
    /\ out' = <<>>
    /\ last' = [NoLast EXCEPT !.kind = "end"]
    /\ UNCHANGED << nstab, i, strs, strtabinc, stabbuff, stabbufflen, heap, cu_include_stack,
                    curr_func, currpath, subpath, in_external_file, group, peer >>

(***************************************************************************)
(* Specifications.  Each draws its raw records from a set of its own.      *)
(***************************************************************************)
MaxStabs == 3

MaxStabsJoin == 3

MaxStabsIncl == 6

\* Type definitions and references inside compilation units.
TypeStabs ==
    { Stab(N_LSYM, 0, 0, Off(TxA)), Stab(N_LSYM, 0, 0, Off(TxA3)),
      Stab(N_LSYM, 0, 0, Off(TxAx)), Stab(N_LSYM, 0, 0, Off(TxA1)),
      Stab(N_LSYM, 0, 0, Off(TxB)), Stab(N_LSYM, 0, 0, Off(TxRef)),
      Stab(N_LSYM, 0, 0, Off(TxInt)), Stab(N_LSYM, 0, 0, Off(TxFoo)),
      Stab(N_GSYM, 0, 64, Off(TxVar)), Stab(N_SO, 0, 0, Off(TxMainC)) }

Next ==
    \/ \E rec \in TypeStabs : StabLsym(rec) \/ StabGsym(rec) \/ StabSo(rec)
    \/ EndOfRun

Spec == InitOf(MaxStabs) /\ [][Next]_vars

\* Continued records.
JoinStabs ==
    { Stab(N_OPT, 0, 0, Off(TxOpt)), Stab(N_LSYM, 0, 0, Off(TxContA)),
      Stab(N_LSYM, 0, 0, Off(TxContB)), Stab(N_OPT, 0, 0, Off(TxMarker)),
      Stab(N_LSYM, 0, 0, Off(TxBadTag)), Stab(N_LSYM, 0, 0, Off(TxA1)),
      Stab(N_OPT, 0, 0, Off(TxEmpty)), Stab(N_OPT, 0, 0, OffEnd(TxOpt)),
      Stab(N_OPT, 0, 0, OffEnd(TxMarker)),
      Stab(N_GSYM, 0, 64, Off(TxBadTag)), Stab(N_GSYM, 0, 64, Off(TxA1)) }

NextJoin ==
    \/ \E rec \in JoinStabs :
          \/ Continuation(rec) \/ SkipDefinition(rec) \/ Undefined(rec)
          \/ StabOpt(rec) \/ StabLsym(rec) \/ StabGsym(rec)
    \/ EndOfRun

SpecJoin == InitOf(MaxStabsJoin) /\ [][NextJoin]_vars

\* Include files across compilation units.
InclStabs ==
    { Stab(N_SO, 0, 0, Off(TxMainC)), Stab(N_BINCL, 0, 7, Off(TxHdr)),
      Stab(N_EXCL, 0, 7, Off(TxHdr)), Stab(N_LSYM, 0, 0, Off(TxIncT)),
      Stab(N_GSYM, 0, 64, Off(TxIncRef)) }

NextIncl ==
    \/ \E rec \in InclStabs :
          \/ StabSo(rec) \/ StabBincl(rec) \/ StabExcl(rec) \/ StabLsym(rec) \/ StabGsym(rec)
          \/ AssertFails(rec) \/ Undefined(rec)
    \/ EndOfRun

SpecIncl == InitOf(MaxStabsIncl) /\ [][NextIncl]_vars

\* The loop of DEBUG_ParseStabs is sequential code that nothing blocks: a
\* step that is possible is taken.  This is weak fairness of the next-state
\* action, written with its enabling condition: a step is possible exactly
\* while run = "running".
Progress == []<>(run # "running") \/ []<><<TRUE>>_vars

FairSpecIncl == SpecIncl /\ Progress

\* Include files nested down to the limit of the include stack: the
\* streams that begin with MAX_INCLUDES - 2 records N_BINCL and go on with
\* any of N_BINCL, N_EXCL and N_EINCL.
MaxStabsDeep == 257

DeepStabs ==
    { Stab(N_BINCL, 0, 7, Off(TxHdr)), Stab(N_EXCL, 0, 7, Off(TxHdr)),
      Stab(N_EINCL, 0, 0, Off(TxHdr)) }

DeepOrder(rec) == i >= MAX_INCLUDES - 2 \/ rec.n_type = N_BINCL

DeepBincl(rec) == DeepOrder(rec) /\ StabBincl(rec)

DeepExcl(rec) == DeepOrder(rec) /\ StabExcl(rec)

DeepEincl(rec) == DeepOrder(rec) /\ StabEincl(rec)

DeepAssertFails(rec) == DeepOrder(rec) /\ AssertFails(rec)

NextDeep ==
    \/ \E rec \in DeepStabs :
          DeepBincl(rec) \/ DeepExcl(rec) \/ DeepEincl(rec) \/ DeepAssertFails(rec)
    \/ EndOfRun

SpecDeep == InitOf(MaxStabsDeep) /\ [][NextDeep]_vars

\* Records that fill the join buffer: pieces of 21845 characters and records
\* that are not continued, in any order, and a definition as long as the
\* buffer while the buffer has its first size.  Three pieces leave room for
\* the terminator only.
MaxStabsCap == 10

HugeStab == Stab(N_LSYM, 0, 0, Off(TxHuge))

CapStabs == { Stab(N_LSYM, 0, 0, Off(TxLong)), Stab(N_LSYM, 0, 4, Off(TxParm)), HugeStab }

CapOrder(rec) == rec # HugeStab \/ stabbufflen = 65536

CapContinuation(rec) == CapOrder(rec) /\ Continuation(rec)

CapLsym(rec) == CapOrder(rec) /\ StabLsym(rec)

CapUndefined(rec) == CapOrder(rec) /\ Undefined(rec)

NextCap ==
    \/ \E rec \in CapStabs : CapContinuation(rec) \/ CapLsym(rec) \/ CapUndefined(rec)
    \/ EndOfRun

SpecCap == InitOf(MaxStabsCap) /\ [][NextCap]_vars

\* Functions, their locals and lines, compilation units and source files.
MaxStabsSym == 4

SymStabs ==
    { Stab(N_FUN, 0, 16, Off(TxFn)), Stab(N_FUN, 0, 32, Off(TxAnon)),
      Stab(N_FUN, 0, 0, OffEnd(TxFn)),
      Stab(N_PSYM, 0, 8, Off(TxParm)), Stab(N_RSYM, 0, 3, Off(TxParm)),
      Stab(N_LSYM, 0, 4, Off(TxParm)), Stab(N_LSYM, 0, 0, Off(TxInt)),
      Stab(N_LSYM, 0, 0, Off(TxAx)),
      Stab(N_SLINE, 10, 4, OffEnd(TxHdr)),
      Stab(N_SO, 0, 0, Off(TxMainC)), Stab(N_SO, 0, 0, Off(TxSoB)),
      Stab(N_SO, 0, 0, Off(TxSoA)), Stab(N_SO, 0, 0, Off(TxEmpty)),
      Stab(N_SOL, 0, 0, Off(TxMainC)), Stab(N_SOL, 0, 0, Off(TxHdr)),
      Stab(N_SOL, 0, 0, OffEnd(TxHdr)),
      Stab(N_UNDF, 0, 0, OffEnd(TxHdr)),
      Stab(N_BINCL, 0, 7, Off(TxHdr)) }

NextSym ==
    \/ \E rec \in SymStabs :
          \/ Continuation(rec)
          \/ StabPsym(rec)
          \/ StabRsym(rec)
          \/ StabLsym(rec)
          \/ StabSline(rec)
          \/ StabFun(rec)
          \/ StabSo(rec)
          \/ StabSol(rec)
          \/ StabUndf(rec)
          \/ StabBincl(rec)
    \/ EndOfRun

SpecSym == InitOf(MaxStabsSym) /\ [][NextSym]_vars

\* Two interleaved calls of DEBUG_ParseStabs, each over MaxStabsTwo records.
MaxStabsTwo == 2

TwoStabs ==
    { Stab(N_LSYM, 0, 0, Off(TxInt)), Stab(N_LSYM, 0, 0, Off(TxAx)),
      Stab(N_FUN, 0, 16, Off(TxFn)), Stab(N_SO, 0, 0, Off(TxMainC)),
      Stab(N_BINCL, 0, 7, Off(TxHdr)) }

InitTwo ==
    /\ peer = LocalsAtEntry(2, MaxStabsTwo)
    /\ run = "running"
    /\ nstab = MaxStabsTwo
    /\ i = 0
    /\ strs = 0
    /\ strtabinc = 0
    /\ stabbuff = <<>>
    /\ stabbufflen = stabbufflen0
    /\ heap = <<>>
    /\ ktd_head = <<>>
    /\ include_defs = <<>>
    /\ cu_include_stack = <<>>
    /\ cu_include_stk_idx = 0
    /\ cu_vector = <<>>
    /\ curr_func = NoFunc
    /\ currpath = <<>>
    /\ subpath = NoPath
    /\ in_external_file = FALSE
    /\ out = <<>>
    /\ last = NoLast
    /\ group = <<>>

NextTwo ==
    \/ \E rec \in TwoStabs :
          \/ StabLsym(rec)
          \/ StabFun(rec)
          \/ StabSo(rec)
          \/ StabBincl(rec)
    \/ EndOfRun
    \/ Yield

SpecTwo == InitTwo /\ [][NextTwo]_vars

\* Definitions that are references to other types, and definitions with
\* references to the types they define themselves.
MaxStabsRef == 3

RefStabs ==
    { Stab(N_LSYM, 0, 0, Off(TxInt)), Stab(N_LSYM, 0, 0, Off(TxAlias)),
      Stab(N_LSYM, 0, 0, Off(TxFwd)), Stab(N_LSYM, 0, 0, Off(TxBack)),
      Stab(N_LSYM, 0, 0, Off(TxRef)), Stab(N_LSYM, 0, 0, Off(TxA)),
      Stab(N_LSYM, 0, 0, Off(TxPtrS)), Stab(N_LSYM, 0, 0, Off(TxXref)) }

NextRef ==
    \/ \E rec \in RefStabs : StabLsym(rec)
    \/ EndOfRun

SpecRef == InitOf(MaxStabsRef) /\ [][NextRef]_vars

\* Records that define one type number twice as a struct, so that pass 2
\* comes to a struct that is already sized.
MaxStabsDup == 3

DupStabs ==
    { Stab(N_LSYM, 0, 0, Off(TxInt)), Stab(N_LSYM, 0, 0, Off(TxFoo)),
      Stab(N_LSYM, 0, 0, Off(TxDup1)), Stab(N_LSYM, 0, 0, Off(TxDup2)),
      Stab(N_LSYM, 0, 0, Off(TxA)) }

NextDup ==
    \/ \E rec \in DupStabs : StabLsym(rec)
    \/ EndOfRun

SpecDup == InitOf(MaxStabsDup) /\ [][NextDup]_vars

\* Type references in the bare and in the parenthesised form, in a unit with
\* an include file.
MaxStabsRes == 3

ResStabs ==
    { Stab(N_BINCL, 0, 7, Off(TxHdr)), Stab(N_LSYM, 0, 0, Off(TxIncT)),
      Stab(N_LSYM, 0, 0, Off(TxA)), Stab(N_LSYM, 0, 0, Off(TxWide)),
      Stab(N_LSYM, 0, 0, Off(TxRef)) }

NextRes ==
    \/ \E rec \in ResStabs : StabBincl(rec) \/ StabLsym(rec) \/ AssertFails(rec)
    \/ EndOfRun

SpecRes == InitOf(MaxStabsRes) /\ [][NextRes]_vars

\* String tables of several object files one after another: each N_UNDF
\* record carries the length of the table that starts at the current base.
\* The two lengths put the second base at "main:F1" and the third at "x:p1";
\* a third length is beyond the end of the strings.
MaxStabsUndf == 4

UndfStabs ==
    { Stab(N_UNDF, 0, Off(TxFn), 0), Stab(N_UNDF, 0, Off(TxParm) - Off(TxFn), 0),
      Stab(N_UNDF, 0, 131072, 0),
      Stab(N_FUN, 0, 16, 0), Stab(N_PSYM, 0, 8, 0), Stab(N_FUN, 0, 32, Off(TxFn)) }

NextUndf ==
    \/ \E rec \in UndfStabs :
          \/ Continuation(rec) \/ StabUndf(rec) \/ StabFun(rec) \/ StabPsym(rec)
          \/ Undefined(rec)
    \/ EndOfRun

SpecUndf == InitOf(MaxStabsUndf) /\ [][NextUndf]_vars

\* Include files that begin, end and are named again, with references to
\* their types, a function and a change of source file.
MaxStabsStk == 4

StkStabs ==
    { Stab(N_SO, 0, 0, Off(TxMainC)), Stab(N_SO, 0, 0, OffEnd(TxMainC)),
      Stab(N_BINCL, 0, 7, Off(TxHdr)), Stab(N_EXCL, 0, 7, Off(TxHdr)),
      Stab(N_EXCL, 0, 9, Off(TxHdr)), Stab(N_EINCL, 0, 0, Off(TxHdr)),
      Stab(N_LSYM, 0, 0, Off(TxIncT)), Stab(N_GSYM, 0, 64, Off(TxIncRef)),
      Stab(N_FUN, 0, 16, Off(TxFn)), Stab(N_SOL, 0, 0, Off(TxHdr)),
      Stab(N_LSYM, 0, 0, Off(TxNegSub)), Stab(N_LSYM, 0, 0, Off(TxNegFile)) }

NextStk ==
    \/ \E rec \in StkStabs :
          \/ StabSo(rec) \/ StabBincl(rec) \/ StabExcl(rec) \/ StabEincl(rec)
          \/ StabLsym(rec) \/ StabGsym(rec) \/ StabFun(rec) \/ StabSol(rec)
          \/ AssertFails(rec) \/ Undefined(rec)
    \/ EndOfRun

SpecStk == InitOf(MaxStabsStk) /\ [][NextStk]_vars

\* Array definitions.
MaxStabsArr == 3

ArrStabs ==
    { Stab(N_LSYM, 0, 0, Off(TxInt)), Stab(N_LSYM, 0, 0, Off(TxFoo)),
      Stab(N_LSYM, 0, 0, Off(TxBar)), Stab(N_LSYM, 0, 0, Off(TxNeg)),
      Stab(N_LSYM, 0, 0, Off(TxVec)), Stab(N_LSYM, 0, 0, Off(TxVecNeg)) }

NextArr ==
    \/ \E rec \in ArrStabs : StabLsym(rec)
    \/ EndOfRun

SpecArr == InitOf(MaxStabsArr) /\ [][NextArr]_vars

(***************************************************************************)
(* Continuation joining                                                    *)
(***************************************************************************)
EndsInMarker(text) == text # <<>> /\ text[Len(text)] = "\\"

StripMarker(text) == IF EndsInMarker(text) THEN SubSeq(text, 1, Len(text) - 1) ELSE text

\* The texts of a group, each without its trailing marker, one after another.
RECURSIVE ConcatStripped(_)
ConcatStripped(texts) ==
    IF texts = <<>> THEN <<>> ELSE StripMarker(Head(texts)) \o ConcatStripped(Tail(texts))

\* C1: a raw record is held back as a continuation only if its text ends in
\* the marker, and a record whose text does not end in the marker completes
\* one logical record whose text is the texts of its group, in order, with
\* every trailing marker removed and nothing else.
C1_Joining ==
    /\ last.kind = "continue" => EndsInMarker(last.raw)
    /\ last.kind \in {"dispatch", "skip"} =>
          /\ ~EndsInMarker(last.raw)
          /\ last.text = ConcatStripped(last.group)

(***************************************************************************)
(* What a typedef text says, read off the text itself                      *)
(***************************************************************************)
AsBuf(text) == text \o <<NUL>>

\* The number of sub-definitions of a text.
NbDefs(text) == Len(EqualsFrom(AsBuf(text), 1))

\* The kinds the tags of a text stand for, in textual order.
TagKinds(text) ==
    [k \in 1..NbDefs(text) |-> ExpectOf(At(AsBuf(text), EqualsFrom(AsBuf(text), 1)[k] + 1))]

\* The type number written before position c, as [file, sub].
KeyBefore(text, c) ==
    IF c >= 2 /\ text[c - 1] = ")"
    THEN LET open == SetMax({q \in 1..(c - 1) : text[q] = "("})
             f    == Strtol(AsBuf(text), open + 1)
         IN  [file |-> f.val, sub |-> Strtol(AsBuf(text), f.end + 1).val]
    ELSE LET stop == SetMax({0} \cup {q \in 1..(c - 1) : ~IsDigit(text[q])})
         IN  [file |-> 0, sub |-> Strtol(AsBuf(text), stop + 1).val]

\* The type numbers a text defines, in textual order.
DefinedKeys(text) ==
    [k \in 1..NbDefs(text) |-> KeyBefore(text, EqualsFrom(AsBuf(text), 1)[k])]

\* The table a file number names: 0 the unit's, k the k-th include table.
TableIndex(stack, file) == IF file = 0 THEN 0 ELSE stack[file] + 1

\* The content of slot sub of a table; empty beyond the table's length.
Content(cu, defs, tab, sub) ==
    LET v == IF tab = 0 THEN cu ELSE defs[tab].vector
    IN  IF sub + 1 <= Len(v) THEN v[sub + 1] ELSE 0

\* All slots of all tables.
Slots ==
    UNION {{[tab |-> t, sub |-> n] :
              n \in 0..(Len(IF t = 0 THEN cu_vector ELSE include_defs[t].vector) - 1)} :
           t \in 0..Len(include_defs)}

\* The step processes a complete logical record with a type definition.
TypedefStep == i' = i + 1 /\ last'.parsed /\ last'.kind \in {"dispatch", "skip"}

\* The step starts a compilation unit or ends the run.
ResetStep == last'.kind = "end" \/ (last'.tag = N_SO /\ last'.text # <<>>)

\* The registry's entries under a name, most recent first.
EntriesOf(name) == {k \in 1..Len(ktd_head) : ktd_head[k].name = name}

\* An entry has the shape of a text: as many nodes as the text has tags,
\* and each node of the kind its tag stands for.
ShapeMatches(entry, text) ==
    /\ Len(entry.types) = NbDefs(text)
    /\ \A k \in 1..NbDefs(text) :
          \/ TagKinds(text)[k] = "ANY"
          \/ TagKinds(text)[k] = DEBUG_GetType(heap, entry.types[k])

\* Every slot a text defines holds the node of the entry at its position.
BoundTo(text, types, stack, cu, defs) ==
    \A k \in 1..NbDefs(text) :
        Content(cu, defs, TableIndex(stack, DefinedKeys(text)[k].file),
                DefinedKeys(text)[k].sub) = types[k]

\* The position after the leading "name:tN=s<size>" of a struct text.
FieldsStart(text) == Strtol(AsBuf(text), EqualsFrom(AsBuf(text), 1)[1] + 2).end

IsStructText(text) ==
    NbDefs(text) >= 1 /\ At(AsBuf(text), EqualsFrom(AsBuf(text), 1)[1] + 1) \in {"s", "u"}

FirstFrom(text, p, ch) == SetMin({Len(text) + 1} \cup {q \in p..Len(text) : text[q] = ch})

\* The fields "name:type,offset,size;" of a struct text from p on, each as
\* [name, key, offset, size].
RECURSIVE FieldsFrom(_, _)
FieldsFrom(text, p) ==
    IF p > Len(text) \/ text[p] = ";" THEN <<>>
    ELSE LET colon  == FirstFrom(text, p, ":")
             comma1 == FirstFrom(text, colon, ",")
             comma2 == FirstFrom(text, comma1 + 1, ",")
             semi   == FirstFrom(text, comma2, ";")
         IN  <<[name   |-> SubSeq(text, p, colon - 1),
                key    |-> [file |-> 0, sub |-> Strtol(AsBuf(text), colon + 1).val],
                offset |-> Strtol(AsBuf(text), comma1 + 1).val,
                size   |-> Strtol(AsBuf(text), comma2 + 1).val]>>
             \o FieldsFrom(text, semi + 1)

FieldsOf(text) == FieldsFrom(text, FieldsStart(text))

\* The members a struct node gets from the fields, given what the slots hold.
MembersOf(text, cu, defs) ==
    [k \in 1..Len(FieldsOf(text)) |->
        [name   |-> FieldsOf(text)[k].name,
         type   |-> Content(cu, defs, 0, FieldsOf(text)[k].key.sub),
         offset |-> FieldsOf(text)[k].offset,
         size   |-> FieldsOf(text)[k].size]]

(***************************************************************************)
(* Slots                                                                   *)
(***************************************************************************)
SlotChanges(k) ==
    /\ Content(cu_vector, include_defs, k.tab, k.sub) # 0
    /\ Content(cu_vector', include_defs', k.tab, k.sub)
          # Content(cu_vector, include_defs, k.tab, k.sub)

\* C2 as stated: within a compilation unit no step changes a slot that
\* holds a node.
C2_SlotsWrittenOnce == [][~ResetStep => \A k \in Slots : ~SlotChanges(k)]_vars

\* C2: within a compilation unit a slot that holds a node changes only in
\* a step that processes a type definition whose text defines that slot's
\* type number; every other step leaves the slots that hold a node alone.
C2_SlotsChangeWhenDefined ==
    [][~ResetStep =>
         \A k \in Slots :
            SlotChanges(k) =>
               /\ TypedefStep
               /\ \E n \in 1..NbDefs(last'.text) :
                     /\ TableIndex(cu_include_stack, DefinedKeys(last'.text)[n].file) = k.tab
                     /\ DefinedKeys(last'.text)[n].sub = k.sub]_vars

\* Slot 5 was defined again after slot 6 had been bound.
C2_Redefined ==
    /\ last.kind = "dispatch" /\ last.text = TxA1
    /\ Content(cu_vector, include_defs, 0, 6) # 0
    /\ Content(cu_vector, include_defs, 0, 5) > Content(cu_vector, include_defs, 0, 6)

(***************************************************************************)
(* The registry                                                            *)
(***************************************************************************)
NameOf(text) == stab_strcpy(AsBuf(text), 1)

\* The entry the lookup stops at for a name: the most recent one; 0 if none.
Newest(name) == IF EntriesOf(name) = {} THEN 0 ELSE SetMin(EntriesOf(name))

Oldest(name) == IF EntriesOf(name) = {} THEN 0 ELSE SetMax(EntriesOf(name))

\* The step processes the text that the step before processed successfully.
SameTextAgain ==
    /\ TypedefStep
    /\ last.kind = "dispatch" /\ last.parsed
    /\ last'.text = last.text

MemberNames(entry) ==
    [k \in 1..Len(heap[entry.types[1]].members) |-> heap[entry.types[1]].members[k].name]

FieldNames(text) == [k \in 1..Len(FieldsOf(text)) |-> FieldsOf(text)[k].name]

\* The nodes a step allocates.
NewNodes == (Len(heap) + 1)..Len(heap')

\* The step parses its definition in full: the entries and the nodes there
\* were stay as they were, and each slot the text defines is left empty or
\* bound to a node the step allocates.
ParsedFresh ==
    /\ ~last'.handled
    /\ Len(ktd_head') >= Len(ktd_head)
    /\ SubSeq(ktd_head', Len(ktd_head') - Len(ktd_head) + 1, Len(ktd_head')) = ktd_head
    /\ Len(heap') >= Len(heap)
    /\ SubSeq(heap', 1, Len(heap)) = heap
    /\ \A k \in 1..NbDefs(last'.text) :
          Content(cu_vector', include_defs',
                  TableIndex(cu_include_stack, DefinedKeys(last'.text)[k].file),
                  DefinedKeys(last'.text)[k].sub) \in {0} \cup NewNodes

MismatchStep ==
    /\ TypedefStep
    /\ Newest(NameOf(last'.text)) # 0
    /\ ~ShapeMatches(ktd_head[Newest(NameOf(last'.text))], last'.text)

NamesUnique ==
    \A a, b \in 1..Len(ktd_head) : ktd_head[a].name = ktd_head[b].name => a = b

ReferenceStep == i' = i + 1 /\ last'.kind = "dispatch" /\ last'.tag = N_GSYM

\* Slot 6 holds a pointer to a struct.
PointerToStruct ==
    /\ Content(cu_vector, include_defs, 0, 6) # 0
    /\ heap[Content(cu_vector, include_defs, 0, 6)].type = "DT_POINTER"
    /\ DEBUG_GetType(heap, heap[Content(cu_vector, include_defs, 0, 6)].target) = "DT_STRUCT"

StructProcessed ==
    /\ last.kind = "dispatch" /\ last.parsed
    /\ IsStructText(last.text)
    /\ \A k \in 1..Len(FieldsOf(last.text)) :
          Content(cu_vector, include_defs, 0, FieldsOf(last.text)[k].key.sub) # 0

\* The slot the text defines first holds a struct of the size and with the
\* fields the text gives.
StructAsWritten ==
    LET dt == Content(cu_vector, include_defs, 0, DefinedKeys(last.text)[1].sub)
    IN  /\ dt # 0
        /\ heap[dt].type = "DT_STRUCT"
        /\ heap[dt].size = Strtol(AsBuf(last.text), EqualsFrom(AsBuf(last.text), 1)[1] + 2).val
        /\ heap[dt].members = MembersOf(last.text, cu_vector, include_defs)

\* C10 as stated: after a struct definition whose fields name slots that
\* hold nodes, the slot holds the struct as written.
C10_StructAsWritten == StructProcessed => StructAsWritten

\* C10: after a struct definition that is parsed in full (not handled by
\* the registry) and whose fields name slots that hold nodes, the slot
\* holds the struct as written.
C10_FreshStructAsWritten == StructProcessed /\ ~last.handled => StructAsWritten

\* "foo:t5=s8x:1,0,32;y:1,32,32;;" after "int" was defined.
C10_FooParsed ==
    /\ last.kind = "dispatch" /\ last.text = TxFoo
    /\ Content(cu_vector, include_defs, 0, 1) # 0
    /\ Content(cu_vector, include_defs, 0, 5) # 0
    /\ Len(heap[Content(cu_vector, include_defs, 0, 5)].members) = 2

(***************************************************************************)
(* Include files                                                           *)
(***************************************************************************)
\* The include_defs with a name and a value.
Matching(name, value) ==
    {k \in 1..Len(include_defs) :
        include_defs[k].name = name /\ include_defs[k].value = value}

ExclStep == i' = i + 1 /\ last'.kind = "dispatch" /\ last'.tag = N_EXCL

BinclStep == i' = i + 1 /\ last'.kind = "dispatch" /\ last'.tag = N_BINCL

IsArrayText(text) ==
    NbDefs(text) >= 1 /\ At(AsBuf(text), EqualsFrom(AsBuf(text), 1)[1] + 1) = "a"

\* What the text "name:tN=ar<idx>;<min>;<max>;<elem>" says: the numbers
\* between its semicolons.
ArrayOf(text) ==
    LET semi1 == FirstFrom(text, EqualsFrom(AsBuf(text), 1)[1], ";")
        semi2 == FirstFrom(text, semi1 + 1, ";")
        semi3 == FirstFrom(text, semi2 + 1, ";")
    IN  [min  |-> Strtol(AsBuf(text), semi1 + 1).val,
         max  |-> Strtol(AsBuf(text), semi2 + 1).val,
         elem |-> Strtol(AsBuf(text), semi3 + 1).val]

\* An array definition was processed.
ArrayProcessed == last.kind = "dispatch" /\ last.parsed /\ IsArrayText(last.text)

\* The slot the text defines first holds an array with the bounds the text
\* gives, whose element type is what the element's slot holds.
ArrayAsWritten ==
    LET dt == Content(cu_vector, include_defs, 0, DefinedKeys(last.text)[1].sub)
    IN  /\ dt # 0
        /\ heap[dt].type = "DT_ARRAY"
        /\ heap[dt].min = ArrayOf(last.text).min
        /\ heap[dt].max = ArrayOf(last.text).max
        /\ heap[dt].target = Content(cu_vector, include_defs, 0, ArrayOf(last.text).elem)

\* C11 as stated: after an array definition the slot holds an array with
\* the signed bounds of the text and the element slot's node as element type.
C11_ArrayAsWritten == ArrayProcessed => ArrayAsWritten

\* C11: after an array definition that is parsed in full (not handled by
\* the registry) the slot holds an array with the signed bounds of the text
\* and the element slot's node as element type.
C11_FreshArrayAsWritten == ArrayProcessed /\ ~last.handled => ArrayAsWritten

\* "neg:t7=ar1;-1;10;5" after slot 5 was defined: bounds -1 .. 10.
C11_NegParsed ==
    /\ last.kind = "dispatch" /\ last.text = TxNeg /\ ~last.handled
    /\ Content(cu_vector, include_defs, 0, 5) # 0
    /\ heap[Content(cu_vector, include_defs, 0, 7)].min = -1
    /\ heap[Content(cu_vector, include_defs, 0, 7)].max = 10
    /\ heap[Content(cu_vector, include_defs, 0, 7)].target = Content(cu_vector, include_defs, 0, 5)

(***************************************************************************)
(* Structs with a field whose type is not known                            *)
(***************************************************************************)
\* A struct definition was parsed in full and one of its fields names a
\* slot that holds no node.
StructFailed ==
    /\ last.kind = "dispatch" /\ last.parsed /\ ~last.handled
    /\ IsStructText(last.text)
    /\ \E k \in 1..Len(FieldsOf(last.text)) :
          Content(cu_vector, include_defs, 0, FieldsOf(last.text)[k].key.sub) = 0

\* C12 as stated: after a struct definition with a field whose type slot is
\* empty, the struct's own slot is empty and DEBUG_ParseTypedefStab has
\* returned success.
C12_FailedStructEmptied ==
    StructFailed =>
        /\ last.ret
        /\ Content(cu_vector, include_defs, 0, DefinedKeys(last.text)[1].sub) = 0

(***************************************************************************)
(* Unknown kind tags                                                       *)
(***************************************************************************)
KnownTags == {"*", "s", "u", "a", "(", "1", "r", "x", "e", "f"}

\* Some '=' of the text is followed by a character that is no kind tag.
HasUnknownTag(text) ==
    \E k \in 1..Len(text) : text[k] = "=" /\ At(AsBuf(text), k + 1) \notin KnownTags

\* C13: a logical record with an unknown kind tag, whatever its n_type,
\* makes DEBUG_ParseTypedefStab return FALSE; nothing is registered, the
\* switch is not reached (no call to the symbol table, no change of the
\* current function, the paths, the external-file flag, the string table
\* base or the include stack), stabbuff is emptied and the loop goes on
\* with the next record.
C13_UnknownTagSkipped ==
    [][/\ i' = i + 1
       /\ last'.kind \in {"dispatch", "skip"}
       /\ HasUnknownTag(last'.text)
       => /\ last'.kind = "skip" /\ ~last'.ret /\ ~last'.handled
          /\ ktd_head' = ktd_head
          /\ out' = <<>>
          /\ stabbuff' = <<>> /\ group' = <<>>
          /\ run' = "running"
          /\ UNCHANGED << curr_func, currpath, subpath, in_external_file, strs, strtabinc,
                          include_defs, cu_include_stack, cu_include_stk_idx >>]_vars

\* A global-symbol record joined from two raw records was skipped for its
\* unknown tag.
C13_JoinedGsymSkipped ==
    /\ last.kind = "skip" /\ last.tag = N_GSYM
    /\ Len(last.group) = 2
    /\ HasUnknownTag(last.text)
    /\ stabbuff = <<>>

(***************************************************************************)
(* The run as a whole                                                      *)
(***************************************************************************)
\* The file numbers a text writes after a '('.
FileNumbers(text) ==
    {Strtol(AsBuf(text), q + 1).val : q \in {p \in 1..Len(text) : text[p] = "("}}

\* C14 as stated: a run is aborted only at the limit of the include stack.
C14_AbortsOnlyAtLimit == run = "aborted" => cu_include_stk_idx >= MAX_INCLUDES

\* C14: every step either takes the record at index i and moves to i + 1 or
\* is the end of the loop after the last record; the module is reported as
\* loaded only after all records; a run is aborted only by an assertion, of
\* the include stack's limit or of a type reference's file number being
\* above the include stack's depth; and every run ends: loaded, aborted,
\* or in undefined behaviour.
C14_RunCompletes ==
    /\ [][/\ nstab' = nstab
          /\ \/ i' = i + 1 /\ i < nstab /\ run' # "done"
             \/ i' = i /\ i = nstab /\ run' = "done"
          /\ run' = "aborted" =>
                \/ last'.tag \in {N_BINCL, N_EXCL} /\ cu_include_stk_idx' = MAX_INCLUDES
                \/ \E f \in FileNumbers(last'.text) : f > cu_include_stk_idx
          /\ run' = "running" => last'.kind \in {"continue", "skip", "dispatch"}]_vars
    /\ [](run # "running" => [](run # "running"))
    /\ <>(run # "running")

\* A run over records with type definitions has reported the module loaded.
C14_RunDone == run = "done" /\ i = nstab /\ i > 0 /\ heap # <<>>

(***************************************************************************)
(* The include stack's bound                                               *)
(***************************************************************************)
\* C15: while the run goes on the depth of the include stack is in
\* 0 .. MAX_INCLUDES - 1; no entry of cu_include_stack beyond index
\* MAX_INCLUDES - 1 is ever written; and an N_BINCL or N_EXCL record that
\* arrives at depth MAX_INCLUDES - 1 ends the run by assertion with the
\* stack as it was.
C15_StackBounded ==
    /\ [](run # "aborted" =>
            cu_include_stk_idx >= 0 /\ cu_include_stk_idx < MAX_INCLUDES)
    /\ [](Len(cu_include_stack) < MAX_INCLUDES)
    /\ [][/\ i' = i + 1
          /\ last'.tag \in {N_BINCL, N_EXCL}
          /\ cu_include_stk_idx = MAX_INCLUDES - 1
          => run' = "aborted" /\ cu_include_stack' = cu_include_stack]_vars

\* The assertion has failed at the limit, with the stack filled up to its
\* last entry.
C15_AtLimit ==
    /\ run = "aborted"
    /\ last.tag = N_EXCL
    /\ cu_include_stk_idx = MAX_INCLUDES
    /\ Len(cu_include_stack) = MAX_INCLUDES - 1

(***************************************************************************)
(* Compilation units                                                       *)
(***************************************************************************)
\* The step dispatches a record N_SO.
SoStep == i' = i + 1 /\ last'.kind = "dispatch" /\ last'.tag = N_SO

\* C16: after an N_SO record with a non-empty text is dispatched the depth
\* of the include stack is 0 and every slot of the unit's table is empty,
\* while the include_defs with their tables, the registry of typedefs and
\* the length of the unit's table are as before.
C16_UnitStartResets ==
    [][SoStep /\ last'.text # <<>> =>
         /\ cu_include_stk_idx' = 0
         /\ Len(cu_vector') = Len(cu_vector)
         /\ \A k \in 1..Len(cu_vector') : cu_vector'[k] = 0
         /\ include_defs' = include_defs
         /\ ktd_head' = ktd_head]_vars

\* A unit has started after a type was defined in the unit's table and an
\* include file was entered.
C16_UnitStarted ==
    /\ last.kind = "dispatch"
    /\ last.tag = N_SO
    /\ last.text # <<>>
    /\ cu_vector # <<>>
    /\ include_defs # <<>>
    /\ ktd_head # <<>>

\* The function the step found current is handed to DEBUG_Normalize, and no
\* function is current after the step.
FunctionClosed ==
    /\ out' = <<[call |-> "DEBUG_Normalize", func |-> curr_func]>>
    /\ curr_func' = NoFunc

\* C17 as stated: an N_SO record with an empty text closes the current
\* function, empties the current path and resets the resolver of type
\* references.
C17_UnitEndResets ==
    [][SoStep /\ last'.text = <<>> =>
         /\ FunctionClosed
         /\ currpath' = <<>>
         /\ cu_include_stk_idx' = 0
         /\ \A k \in 1..Len(cu_vector') : cu_vector'[k] = 0]_vars

\* C17: after an N_SO record with an empty text is dispatched the current
\* function has been handed to DEBUG_Normalize and is none and the current
\* path is empty; the include stack, its depth, the unit's table and the
\* include_defs are as before.
C17_UnitEndKeepsResolver ==
    [][SoStep /\ last'.text = <<>> =>
         /\ FunctionClosed
         /\ currpath' = <<>>
         /\ cu_include_stk_idx' = cu_include_stk_idx
         /\ cu_include_stack' = cu_include_stack
         /\ cu_vector' = cu_vector
         /\ include_defs' = include_defs
         /\ ktd_head' = ktd_head]_vars

\* A unit has ended inside an include file, with a function current.
C17_EndedInInclude ==
    /\ last.kind = "dispatch"
    /\ last.tag = N_SO
    /\ last.text = <<>>
    /\ out # <<>>
    /\ out[1].func # NoFunc
    /\ cu_include_stk_idx > 0

(***************************************************************************)
(* Source files                                                            *)
(***************************************************************************)
\* The step dispatches a record N_SOL.
SolStep == i' = i + 1 /\ last'.kind = "dispatch" /\ last'.tag = N_SOL

FunStep == i' = i + 1 /\ last'.kind = "dispatch" /\ last'.tag = N_FUN

HasColon(text) == \E k \in 1..Len(text) : text[k] = ":"

\* The text up to its first colon, the whole text when it has none.
UpToColon(text) ==
    IF HasColon(text)
    THEN SubSeq(text, 1, SetMin({k \in 1..Len(text) : text[k] = ":"}) - 1)
    ELSE text

\* The step closes the function that was current and makes none current.
FunCleared ==
    /\ out' = <<[call |-> "DEBUG_Normalize", func |-> curr_func]>>
    /\ curr_func' = NoFunc

\* The step closes the function that was current and then adds one function
\* symbol, which is current after the step.  The texts of the model refer
\* to type 1 of the unit after their colon.
FunEmitted ==
    /\ Len(out') = 2
    /\ out'[1] = [call |-> "DEBUG_Normalize", func |-> curr_func]
    /\ out'[2].call = "DEBUG_AddSymbol"
    /\ out'[2].name = UpToColon(last'.text)
    /\ out'[2].addr = load_offset + last'.value
    /\ out'[2].type = IF HasColon(last'.text)
                      THEN Content(cu_vector, include_defs, 0, 1) ELSE 0
    /\ curr_func' = [sym |-> UpToColon(last'.text), rec |-> i]

\* C19 as stated: outside an external file every N_FUN record with a
\* non-empty text adds a function symbol.
C19_NonEmptyTextEmits ==
    [][FunStep =>
         IF in_external_file \/ last'.text = <<>> THEN FunCleared ELSE FunEmitted]_vars

\* C19: an N_FUN record first hands the current function to
\* DEBUG_Normalize; in an external file, or when the name (the text up to
\* its first colon) is empty, it adds no symbol and no function is current
\* after it; otherwise it adds exactly one function symbol with that name,
\* the address load_offset + n_value and the type in the slot referred to
\* after the colon (none when the text has no colon), and that symbol is
\* the current function.
C19_NonEmptyNameEmits ==
    [][FunStep =>
         IF in_external_file \/ UpToColon(last'.text) = <<>>
         THEN FunCleared ELSE FunEmitted]_vars

\* A function of a defined type has replaced another as the current one.
C19_FunReplaced ==
    /\ last.kind = "dispatch"
    /\ last.tag = N_FUN
    /\ last.text = TxFn
    /\ Len(out) = 2
    /\ out[1].func # NoFunc
    /\ curr_func = [sym |-> UpToColon(TxFn), rec |-> i - 1]

(***************************************************************************)
(* Locals and lines                                                        *)
(***************************************************************************)
\* C20: a local variable or a line number is added only by a dispatched
\* N_PSYM, N_RSYM, N_LSYM or N_SLINE record, only while a function is
\* current and in_external_file is false, and it is added to the current
\* function; the current function changes only at an N_FUN record, which
\* makes the symbol it adds current or else none, and at an N_SO record
\* with an empty text and an N_UNDF record, which make none current.
C20_LocalsGated ==
    /\ [][\A k \in 1..Len(out') :
             out'[k].call \in {"DEBUG_AddLocal", "DEBUG_AddLineNumber"} =>
                /\ i' = i + 1
                /\ last'.kind = "dispatch"
                /\ last'.tag \in {N_PSYM, N_RSYM, N_LSYM, N_SLINE}
                /\ (out'[k].call = "DEBUG_AddLineNumber") = (last'.tag = N_SLINE)
                /\ curr_func # NoFunc
                /\ ~in_external_file
                /\ out'[k].func = curr_func
                /\ curr_func' = curr_func]_vars
    /\ [][curr_func' # curr_func =>
            \/ /\ FunStep
               /\ curr_func' # NoFunc => curr_func'.rec = i /\ Len(out') = 2
            \/ /\ curr_func' = NoFunc
               /\ last'.kind = "dispatch"
               /\ last'.tag = N_UNDF \/ (last'.tag = N_SO /\ last'.text = <<>>)]_vars

\* A parameter has been added to the function that is current, which an
\* earlier record made.
C20_ParameterAdded ==
    /\ last.kind = "dispatch"
    /\ last.tag = N_PSYM
    /\ out # <<>>
    /\ out[1].call = "DEBUG_AddLocal"
    /\ out[1].func = curr_func
    /\ curr_func.sym = UpToColon(TxFn)
    /\ curr_func.rec < i - 2

(***************************************************************************)
(* The end of the run                                                      *)
(***************************************************************************)
\* Seq s ends with the seq t.
EndsWith(s, t) ==
    Len(t) <= Len(s) /\ SubSeq(s, Len(s) - Len(t) + 1, Len(s)) = t

C22_CallsShareTables ==
    /\ [][last'.kind = "yield" =>
            /\ peer'.id # peer.id
            /\ i' = peer.i /\ peer'.i = i
            /\ UNCHANGED << heap, ktd_head, include_defs, cu_include_stack,
                            cu_include_stk_idx, cu_vector >>]_vars
    /\ [][FunStep /\ Len(out') = 2 =>
            out'[2].type = Content(cu_vector, include_defs, 0, 1)]_vars
    /\ [][last'.kind = "end" /\ peer.run = "running" =>
            ktd_head' = <<>> /\ include_defs' = <<>> /\ cu_vector' = <<>>]_vars

\* The second call, whose only record so far is the N_FUN record, has got
\* a type node: one the first call bound.
C22_ForeignNode ==
    /\ peer.id = 1
    /\ i = 1
    /\ last.kind = "dispatch"
    /\ last.tag = N_FUN
    /\ Len(out) = 2
    /\ out[2].type # 0

(***************************************************************************)
(* Definitions that are references                                         *)
(***************************************************************************)
\* The position of the last '=' of a text; 0 if none.
LastEquals(text) == SetMax({0} \cup {k \in 1..Len(text) : text[k] = "="})

\* The last sub-definition of the text is a reference N=(f,s).
EndsInReference(text) ==
    LastEquals(text) > 0 /\ At(AsBuf(text), LastEquals(text) + 1) = "("

\* The (f,s) written after the last '='.
ReferredKey(text) ==
    LET f == Strtol(AsBuf(text), LastEquals(text) + 2)
    IN  [file |-> f.val, sub |-> Strtol(AsBuf(text), f.end + 1).val]

\* The step parses a text whose last sub-definition is a reference within
\* the unit's table.
XrefStep ==
    /\ TypedefStep
    /\ last'.kind = "dispatch"
    /\ ~last'.handled
    /\ EndsInReference(last'.text)

\* What C23 says of the slots n and s of a definition n=(0,s) neither of
\* which the text defines with a kind tag.
ReferenceBound(n, s) ==
    LET pn == Content(cu_vector, include_defs, 0, n)
        ps == Content(cu_vector, include_defs, 0, s)
        qn == Content(cu_vector', include_defs', 0, n)
        qs == Content(cu_vector', include_defs', 0, s)
    IN  IF pn = 0 /\ ps # 0 THEN qn = ps /\ qs = ps
        ELSE IF pn = 0 /\ ps = 0
        THEN /\ qn > Len(heap) /\ qs = qn
             /\ heap'[qn].type = "DT_BASIC"
        ELSE qn = pn /\ qs = ps

\* C23: a reference definition N=(f,s) binds slot N to the node of the
\* referred slot when only N is empty, binds both slots to one new basic
\* node when both are empty, and changes neither slot otherwise.
C23_ReferenceBinds ==
    [][XrefStep =>
         ReferenceBound(KeyBefore(last'.text, LastEquals(last'.text)).sub,
                        ReferredKey(last'.text).sub)]_vars

(***************************************************************************)
(* A struct that is already sized                                          *)
(***************************************************************************)
\* The text defines one type number of the unit twice, both times as a
\* struct, the second definition standing in the first one's first field.
DefinedTwice(text) ==
    /\ NbDefs(text) = 2
    /\ DefinedKeys(text)[1] = DefinedKeys(text)[2]
    /\ TagKinds(text) = <<"DT_STRUCT", "DT_STRUCT">>

\* The step parses such a text while type 1, the type of the fields, is
\* defined: pass 2 fills the inner struct and then finds the outer
\* definition's node, which is the same node, sized.
SizedStructStep ==
    /\ TypedefStep
    /\ last'.kind = "dispatch"
    /\ ~last'.handled
    /\ ~last'.lost
    /\ DefinedTwice(last'.text)
    /\ Content(cu_vector, include_defs, 0, 1) # 0

\* C24: when pass 2 finds the struct already sized it adds no field to the
\* node and cuts the text from the definition's '=' to just after its ";;",
\* whatever the number of fields; here the ";;" ends the text, so what is
\* left is the text before the '='.
C24_SizedStructCutAtEnd ==
    [][SizedStructStep =>
         /\ last'.left = SubSeq(last'.text, 1, EqualsFrom(AsBuf(last'.text), 1)[1] - 1)
         /\ Len(heap') = Len(heap) + 2
         /\ heap'[Len(heap) + 1].members = <<>>
         /\ Len(heap'[Len(heap) + 2].members) = 1]_vars


(***************************************************************************)
(* The effect of DEBUG_HandlePreviousTypedef                               *)
(***************************************************************************)
\* All slots of the tables given.
SlotsIn(cu, defs) ==
    UNION {{[tab |-> t, sub |-> n] :
              n \in 0..(Len(IF t = 0 THEN cu ELSE defs[t].vector) - 1)} :
           t \in 0..Len(defs)}

\* The slot the reference before the k-th '=' of a text names.
SlotOfDef(text, k) ==
    [tab |-> TableIndex(cu_include_stack, DefinedKeys(text)[k].file),
     sub |-> DefinedKeys(text)[k].sub]

NamedSlots(text) == {SlotOfDef(text, k) : k \in 1..NbDefs(text)}

\* The last position of a text that names the slot position k names.
LastNaming(text, k) ==
    SetMax({n \in 1..NbDefs(text) : SlotOfDef(text, n) = SlotOfDef(text, k)})

\* The slots a text does not name hold in the next state what they hold now.
OthersKept(text) ==
    \A s \in SlotsIn(cu_vector', include_defs') :
        s \notin NamedSlots(text) =>
            Content(cu_vector', include_defs', s.tab, s.sub)
               = Content(cu_vector, include_defs, s.tab, s.sub)

\* The call gave FALSE and changed nothing, r being what it gave.
Untouched(r) == ~r.ret /\ r.m = Globals(FALSE)

\* C25 as stated: a definition the registry handles leaves each slot its
\* text names bound to the node at the same position of the matched entry,
\* allocates no node and changes no other slot; a call that gives FALSE
\* changes no slot and no entry.
C25_EachPositionBound ==
    [][TypedefStep =>
         /\ last'.handled =>
               /\ \A k \in 1..NbDefs(last'.text) :
                     Content(cu_vector', include_defs',
                             SlotOfDef(last'.text, k).tab, SlotOfDef(last'.text, k).sub)
                        = ktd_head[Newest(NameOf(last'.text))].types[k]
               /\ heap' = heap
               /\ OthersKept(last'.text)
         /\ ~last'.handled =>
               Untouched(DEBUG_HandlePreviousTypedef(Globals(FALSE), NameOf(last'.text),
                                                     AsBuf(last'.text)))]_vars

\* C25: a definition the registry handles leaves each slot its text names
\* bound to the node of the matched entry at the last position of the text
\* that names the slot, allocates no node and changes no other slot; a call
\* that gives FALSE changes no slot and no entry.
C25_LastPositionBound ==
    [][TypedefStep =>
         /\ last'.handled =>
               /\ \A k \in 1..NbDefs(last'.text) :
                     Content(cu_vector', include_defs',
                             SlotOfDef(last'.text, k).tab, SlotOfDef(last'.text, k).sub)
                        = ktd_head[Newest(NameOf(last'.text))].types[LastNaming(last'.text, k)]
               /\ heap' = heap
               /\ OthersKept(last'.text)
         /\ ~last'.handled =>
               Untouched(DEBUG_HandlePreviousTypedef(Globals(FALSE), NameOf(last'.text),
                                                     AsBuf(last'.text)))]_vars

\* "A:t5=s4a:5=..." was handled by the registry: slot 5, named at both
\* positions, holds the entry's second node.
C25_BoundToLast ==
    /\ last.kind = "dispatch" /\ last.handled /\ last.text = TxDup1
    /\ Newest(NameOf(TxDup1)) # 0
    /\ ktd_head[Newest(NameOf(TxDup1))].types[1] # ktd_head[Newest(NameOf(TxDup1))].types[2]
    /\ Content(cu_vector, include_defs, 0, 5) = ktd_head[Newest(NameOf(TxDup1))].types[2]

(***************************************************************************)
(* The two readers of a type reference                                     *)
(***************************************************************************)
\* The characters a type reference follows: the symbol descriptors, the
\* tags that take a type, the ':' of a field and the '=' of an alias.
RefLead == {"t", "T", "G", "F", "p", "*", "r", "f", ":", "="}

\* The position of the last character of the reference that starts at p.
RefEnd(text, p) ==
    IF text[p] = "(" THEN SetMin({Len(text)} \cup {q \in p..Len(text) : text[q] = ")"})
    ELSE DigitsEnd(AsBuf(text), p) - 1

\* The positions where a type reference of a text starts: after one of the
\* characters above, or where the number or the pair before an '=' starts.
RefStarts(text) ==
    {p \in 2..Len(text) :
        /\ text[p] = "(" \/ (IsDigit(text[p]) /\ ~IsDigit(text[p - 1]))
        /\ text[p - 1] \notin {"(", ","}
        /\ text[p - 1] \in RefLead \/ At(AsBuf(text), RefEnd(text, p) + 1) = "="}

\* The two readers gave the same slot of a table and left the same tables,
\* and the forward reader stopped after the last character, at position e.
SameSlot(b, f, e) == b.slot = f.slot /\ b.slot.tab >= 0 /\ b.m = f.m /\ f.x = e

\* C26: for every type reference of a definition text, in the bare or in
\* the parenthesised form, DEBUG_ReadTypeEnumBackwards started at its last
\* character gives the slot DEBUG_ReadTypeEnum gives started at its first.
C26_ReadersAgree ==
    [][TypedefStep /\ last'.kind = "dispatch" =>
         \A p \in RefStarts(last'.text) :
            SameSlot(DEBUG_ReadTypeEnumBackwards(Globals(FALSE), AsBuf(last'.text),
                                                 RefEnd(last'.text, p)),
                     DEBUG_ReadTypeEnum(Globals(FALSE), AsBuf(last'.text), p),
                     RefEnd(last'.text, p) + 1)]_vars

\* A text with references of both forms to the include file's table and a
\* text with a bare reference of two digits were parsed.
C26_BothFormsRead ==
    /\ i = 3 /\ last.kind = "dispatch" /\ last.text = TxWide
    /\ Len(cu_vector) = 13 /\ cu_vector[13] # 0
    /\ Len(include_defs) = 1 /\ Len(include_defs[1].vector) = 5
    /\ include_defs[1].vector[4] # 0 /\ include_defs[1].vector[5] # 0

(***************************************************************************)
(* The second loop of DEBUG_ParseTypedefStab                               *)
(***************************************************************************)
\* The step parses a definition in full and DEBUG_ParseTypedefStab gives
\* TRUE: both loops ran to their end.
FullParseStep == TypedefStep /\ ~last'.handled /\ last'.ret

\* C27: when both loops of DEBUG_ParseTypedefStab run to their end, the
\* second leaves a text without '=' that is no longer than the original,
\* and the scratch index at -1: it took one turn for each skeleton the first
\* loop recorded, one skeleton for each '=' of the text, and each turn cut
\* the text at the rightmost '='.
C27_SecondLoopConsumesAll ==
    [][FullParseStep =>
         /\ ~HasEquals(last'.left)
         /\ Len(last'.left) < Len(last'.text)
         /\ last'.ntp = -1
         /\ NbDefs(last'.text) > 1 =>
               /\ Len(ktd_head') = Len(ktd_head) + 1
               /\ Len(ktd_head'[1].types) = NbDefs(last'.text)]_vars

\* "A:t5=s8p:6=*5,0,32;q:6,32,32;;" was parsed: the pointer at the second
\* '=' was filled first, then the struct with both of its fields.
C27_TwoTurnsTaken ==
    /\ last.kind = "dispatch" /\ last.text = TxA /\ ~last.handled /\ last.ret
    /\ last.ntp = -1 /\ last.left = S("A:t5")
    /\ Len(ktd_head) >= 1 /\ Len(ktd_head[1].types) = 2
    /\ Len(heap[ktd_head[1].types[1]].members) = 2

(***************************************************************************)
(* References to the types a record defines itself                         *)
(***************************************************************************)
\* The type number written from position p on, as [file, sub].
KeyAt(text, p) ==
    IF text[p] = "("
    THEN [file |-> Strtol(AsBuf(text), p + 1).val,
          sub  |-> Strtol(AsBuf(text), Strtol(AsBuf(text), p + 1).end + 1).val]
    ELSE [file |-> 0, sub |-> Strtol(AsBuf(text), p).val]

\* The node the first loop allocates at the j-th '=' of the text of a step:
\* every '=' but those of an alias gets one, in textual order.
SkeletonAt(text, j) ==
    Len(heap) + Cardinality({n \in 1..j : TagKinds(text)[n] # "ANY"})

\* The positions of a text that define a type number with a kind tag.
DefinesWithTag(text, key) ==
    {j \in 1..NbDefs(text) : DefinedKeys(text)[j] = key /\ TagKinds(text)[j] # "ANY"}

\* The positions of a text whose tag is '*'.
PointerDefs(text) == {k \in 1..NbDefs(text) : TagKinds(text)[k] = "DT_POINTER"}

\* The type number a pointer definition points to.
TargetKey(text, k) == KeyAt(text, EqualsFrom(AsBuf(text), 1)[k] + 2)

\* The fields of a struct text whose type the text defines itself at j.
FieldsDefinedAt(text, j) ==
    {f \in 1..Len(FieldsOf(text)) : j \in DefinesWithTag(text, FieldsOf(text)[f].key)}

\* The struct node of the step has a member of the name and the type given.
HasMember(node, name, type) ==
    \E n \in 1..Len(heap'[node].members) :
        heap'[node].members[n].name = name /\ heap'[node].members[n].type = type

\* The second loop has taken the struct or union defined at j out of its slot.
Cleared(text, j) ==
    /\ TagKinds(text)[j] = "DT_STRUCT"
    /\ Content(cu_vector', include_defs', SlotOfDef(text, j).tab, SlotOfDef(text, j).sub) = 0

\* C28 as stated: every reference of a record to a type number the record
\* defines with a kind tag gives the node the first loop allocated for it,
\* whether the definition stands left or right of the reference: a pointer
\* definition gets it as its target, a struct field as its type.
C28_OwnReferencesResolve ==
    [][FullParseStep =>
         /\ \A k \in PointerDefs(last'.text) :
               \A j \in DefinesWithTag(last'.text, TargetKey(last'.text, k)) :
                  heap'[SkeletonAt(last'.text, k)].target = SkeletonAt(last'.text, j)
         /\ IsStructText(last'.text) =>
               \A j \in 1..NbDefs(last'.text) :
                  \A f \in FieldsDefinedAt(last'.text, j) :
                     HasMember(SkeletonAt(last'.text, 1), FieldsOf(last'.text)[f].name,
                               SkeletonAt(last'.text, j))]_vars

\* C28: every reference of a record to a type number the record defines
\* with a kind tag gives the node the first loop allocated for it, whether
\* the definition stands left or right of the reference, except that a
\* reference to the left of a struct or union that the second loop has
\* taken out of its slot gives no node: the pointer gets no target, the
\* field is not added.
C28_OwnReferencesResolveUnlessCleared ==
    [][FullParseStep =>
         /\ \A k \in PointerDefs(last'.text) :
               \A j \in DefinesWithTag(last'.text, TargetKey(last'.text, k)) :
                  \/ heap'[SkeletonAt(last'.text, k)].target = SkeletonAt(last'.text, j)
                  \/ /\ j > k /\ Cleared(last'.text, j)
                     /\ heap'[SkeletonAt(last'.text, k)].target = 0
         /\ IsStructText(last'.text) =>
               \A j \in 1..NbDefs(last'.text) :
                  \A f \in FieldsDefinedAt(last'.text, j) :
                     \/ HasMember(SkeletonAt(last'.text, 1), FieldsOf(last'.text)[f].name,
                                  SkeletonAt(last'.text, j))
                     \/ /\ j > 1 /\ Cleared(last'.text, j)
                        /\ \A n \in 1..Len(heap'[SkeletonAt(last'.text, 1)].members) :
                              heap'[SkeletonAt(last'.text, 1)].members[n].name
                                 # FieldsOf(last'.text)[f].name]_vars

\* "A:t5=s8p:6=*5,0,32;q:6,32,32;;" was parsed: the pointer of slot 6,
\* defined inside the struct, points back to the struct of slot 5, and both
\* fields of the struct have the pointer as their type.
C28_PointsBackToStruct ==
    /\ last.kind = "dispatch" /\ last.text = TxA /\ ~last.handled /\ last.ret
    /\ Content(cu_vector, include_defs, 0, 5) # 0
    /\ Content(cu_vector, include_defs, 0, 6) # 0
    /\ heap[Content(cu_vector, include_defs, 0, 5)].type = "DT_STRUCT"
    /\ heap[Content(cu_vector, include_defs, 0, 6)].target = Content(cu_vector, include_defs, 0, 5)
    /\ Len(heap[Content(cu_vector, include_defs, 0, 5)].members) = 2
    /\ \A n \in 1..2 : heap[Content(cu_vector, include_defs, 0, 5)].members[n].type
                          = Content(cu_vector, include_defs, 0, 6)

\* "P:t5=*6=s4a:9,0,32;;" was parsed while slot 9 was empty: the struct
\* was taken out of slot 6 and the pointer of slot 5 has no target.
C28_PointerToCleared ==
    /\ last.kind = "dispatch" /\ last.text = TxPtrS /\ ~last.handled /\ last.ret
    /\ ~last.lost
    /\ Content(cu_vector, include_defs, 0, 6) = 0
    /\ Content(cu_vector, include_defs, 0, 5) # 0
    /\ heap[Content(cu_vector, include_defs, 0, 5)].type = "DT_POINTER"
    /\ heap[Content(cu_vector, include_defs, 0, 5)].target = 0

(***************************************************************************)
(* The names of the skeletons                                              *)
(***************************************************************************)
\* The tag character after the j-th '=' of a text.
TagAt(text, j) == At(AsBuf(text), EqualsFrom(AsBuf(text), 1)[j] + 1)

\* The positions of a text that get a skeleton in the first loop.
SkeletonDefs(text) == {j \in 1..NbDefs(text) : TagKinds(text)[j] # "ANY"}

\* The positions of a text whose tag is 's' or 'u'.
StructDefs(text) == {j \in 1..NbDefs(text) : TagAt(text, j) \in {"s", "u"}}

\* The name the skeleton of position j of the step's text has got.
SkeletonNamed(text, j) == heap'[SkeletonAt(text, j)].name

\* C29 as stated: the first skeleton with tag s or u has the declared
\* name, wherever it stands, and every later skeleton has no name.
C29_FirstStructNamed ==
    [][FullParseStep /\ StructDefs(last'.text) # {} =>
         /\ SkeletonNamed(last'.text, SetMin(StructDefs(last'.text))) = NameOf(last'.text)
         /\ \A j \in SkeletonDefs(last'.text) :
               j > SetMin(StructDefs(last'.text)) => SkeletonNamed(last'.text, j) = NULLNAME]_vars

\* C29: the skeleton of the first sub-definition has the declared name if
\* its tag is s, u, 1 or r; a skeleton with tag x has the name written
\* after "xs"; every other skeleton has no name, a struct or union that is
\* not the first sub-definition included.
C29_FirstDefinitionNamed ==
    [][FullParseStep =>
         \A j \in SkeletonDefs(last'.text) :
            SkeletonNamed(last'.text, j) =
               IF TagAt(last'.text, j) = "x"
               THEN stab_strcpy(AsBuf(last'.text), EqualsFrom(AsBuf(last'.text), 1)[j] + 3)
               ELSE IF j = 1 /\ TagAt(last'.text, j) \in {"s", "u", "1", "r"}
               THEN NameOf(last'.text)
               ELSE NULLNAME]_vars

\* "P:t5=*6=s4a:9,0,32;;" was parsed: its struct, the second
\* sub-definition, has no name.
C29_SecondStructAnonymous ==
    /\ last.kind = "dispatch" /\ last.text = TxPtrS /\ ~last.handled /\ last.ret
    /\ Len(heap) >= 2
    /\ heap[Len(heap)].type = "DT_STRUCT" /\ heap[Len(heap)].name = NULLNAME
    /\ heap[Len(heap) - 1].type = "DT_POINTER" /\ heap[Len(heap) - 1].name = NULLNAME

(***************************************************************************)
(* The base of the string table                                            *)
(***************************************************************************)
\* The step is the case N_UNDF of the switch.
UndfStep == i' = i + 1 /\ last'.kind = "dispatch" /\ last'.tag = N_UNDF

\* The step reads the text of its record.
ReadStep == i' = i + 1 /\ last'.kind \in {"dispatch", "skip", "continue"}

\* The n_strx of the record of a step, which its type and value tell.
StrxOf(tag, value) ==
    (CHOOSE rec \in UndfStabs : rec.n_type = tag /\ rec.n_value = value).n_strx

\* C30: the text of a record is the string at the record's n_strx from the
\* base; the base starts at the table's first byte with an increment of 0;
\* an N_UNDF record moves the base by the increment the N_UNDF record before
\* it stored (so that after k of them the base has moved by the values of
\* the first k - 1), stores its own value as the next increment, hands the
\* current function to DEBUG_Normalize and leaves none; no other record
\* changes the base or the increment.
C30_BaseAdvances ==
    /\ strs = 0 /\ strtabinc = 0
    /\ [][/\ ReadStep => last'.raw = CStr(Blob, strs + StrxOf(last'.tag, last'.value) + 1)
          /\ UndfStep =>
                /\ strs' = strs + strtabinc
                /\ strtabinc' = last'.value
                /\ curr_func' = NoFunc
                /\ out' = <<[call |-> "DEBUG_Normalize", func |-> curr_func]>>
          /\ ~UndfStep => strs' = strs /\ strtabinc' = strtabinc]_vars

\* After three N_UNDF records the base stands at "x:p1", the sum of the
\* values of the first two, and the next record's text is read from there.
C30_ThirdSegment ==
    /\ i = 4 /\ last.kind = "dispatch" /\ last.tag = N_PSYM /\ last.raw = TxParm
    /\ strs = Off(TxParm) /\ strs # strtabinc /\ strtabinc # 0
    /\ curr_func = NoFunc

(***************************************************************************)
(* The end of an include file                                              *)
(***************************************************************************)
\* The step is the case N_EINCL of the switch.
EinclStep == i' = i + 1 /\ last'.kind = "dispatch" /\ last'.tag = N_EINCL

\* The step is the case N_BINCL or the case N_EXCL of the switch.
PushStep == i' = i + 1 /\ last'.kind = "dispatch" /\ last'.tag \in {N_BINCL, N_EXCL}

\* The step calls DEBUG_ResetIncludes or DEBUG_FreeIncludes.
ResolverReset ==
    \/ last'.kind = "end"
    \/ i' = i + 1 /\ last'.kind = "dispatch" /\ last'.tag = N_SO /\ last'.text # <<>>

\* C31: an N_EINCL record changes neither the include stack nor its depth,
\* nor the include_defs, the tables, the nodes, the registry, the current
\* function, the path or the external-file flag, and emits nothing; the
\* depth of the include stack goes up by one with every N_BINCL and N_EXCL
\* record, back to 0 when the resolver is reset, and is left alone by every
\* other record, so that it counts the N_BINCL and N_EXCL records since the
\* last reset.
C31_EinclChangesNothing ==
    [][/\ EinclStep =>
             /\ UNCHANGED << cu_include_stack, cu_include_stk_idx, include_defs, cu_vector,
                             heap, ktd_head, curr_func, currpath, subpath,
                             in_external_file, strs, strtabinc >>
             /\ out' = <<>>
       /\ PushStep => cu_include_stk_idx' = cu_include_stk_idx + 1
       /\ ResolverReset => cu_include_stk_idx' = 0
       /\ ~PushStep /\ ~ResolverReset /\ last'.kind \in {"dispatch", "skip", "continue"}
             => cu_include_stk_idx' = cu_include_stk_idx]_vars

\* An include file began and ended inside a function of a unit: the depth
\* is still 1 after the N_EINCL record, with the function and the unit's
\* path as they were.
C31_DepthKeptAfterEnd ==
    /\ i = 4 /\ last.kind = "dispatch" /\ last.tag = N_EINCL
    /\ cu_include_stk_idx = 1 /\ Len(include_defs) = 1
    /\ curr_func # NoFunc /\ currpath # <<>>

(***************************************************************************)
(* The capacity of the join buffer                                         *)
(***************************************************************************)
\* C32 as stated: the text in the join buffer, with its terminator, fits
\* the buffer's capacity in every state.
C32_TextFitsBuffer == Len(stabbuff) + 1 <= stabbufflen

(***************************************************************************)
(* The bounds of slot accesses                                             *)
(***************************************************************************)
\* The type numbers a text has the resolver look up: those it defines and
\* those its pointer definitions point to.
KeysRead(text) ==
    {DefinedKeys(text)[k] : k \in 1..NbDefs(text)}
        \cup {TargetKey(text, k) : k \in PointerDefs(text)}

\* C33 as stated: no iteration reads or writes outside a table or outside
\* the include stack because of a negative file number or subscript in the
\* text it parses.
C33_AccessesInBounds ==
    last.kind = "undefined" /\ HasEquals(last.raw) =>
        \A key \in KeysRead(last.raw) : key.file >= 0 /\ key.sub >= 0

(***************************************************************************)
(* The entries of the include stack                                        *)
(***************************************************************************)
\* C34 as stated: every entry of the include stack at the positions
\* 1..depth is the index of an include_def.
C34_StackEntriesValid ==
    \A k \in 1..cu_include_stk_idx :
        cu_include_stack[k] >= 0 /\ cu_include_stack[k] < Len(include_defs)

(***************************************************************************)
(* Structs that failed, and the registry                                   *)
(***************************************************************************)
\* The struct node the registry holds for the text of the last record.
RegisteredStruct == ktd_head[Newest(NameOf(last.text))].types[1]

\* C35 as stated: the step after a struct definition has failed binds no
\* slot to the partially built struct node.
C35_FailedStructNotBound ==
    [][StructFailed =>
          \A k \in Slots' :
              Content(cu_vector', include_defs', k.tab, k.sub) = RegisteredStruct
                  => Content(cu_vector, include_defs, k.tab, k.sub) = RegisteredStruct]_vars

(***************************************************************************)
(* The external-file flag at the start of a compilation unit               *)
(***************************************************************************)
\* C36 as stated: when an N_SO record is dispatched the external-file flag
\* is false afterwards.
C36_UnitStartsInMainFile == [][SoStep => ~in_external_file']_vars

\* A function at the start of a unit is announced: an N_FUN record with a
\* name that follows an N_SO record sets the current function.
C36_FirstFunctionAnnounced ==
    [][FunStep /\ last.kind = "dispatch" /\ last.tag = N_SO /\ last'.text # <<>>
          /\ NameOf(last'.text) # <<>>
          => curr_func' # NoFunc]_vars

(***************************************************************************)
(* The fields of a joined record                                           *)
(***************************************************************************)
\* The step reads a raw record and completes its iteration.
RecordStep == i' = i + 1 /\ last'.kind \in {"dispatch", "skip", "continue"}

\* C37 as stated, for records with a text that is not empty: a raw record
\* is dispatched if and only if its text does not end in the marker, so
\* that as many logical records are dispatched as there are raw records
\* whose text does not end in the marker.
C37_DispatchedIffNotContinued ==
    [][RecordStep /\ last'.raw # <<>> =>
          (last'.kind = "dispatch" <=> ~EndsInMarker(last'.raw))]_vars

\* C37: a raw record whose text ends in the marker is held back and emits
\* nothing; a record that is not held back closes its group, and is either
\* skipped, when its joined text holds a definition that
\* DEBUG_ParseTypedefStab rejects, emitting nothing, or dispatched once by
\* its own tag and value: an N_GSYM record adds one symbol at its own value
\* and an N_OPT record emits nothing, whatever the tags of the records
\* joined before it; the end of the stream emits nothing, so that an open
\* group is never dispatched.
C37_DispatchedAsLastRecord ==
    [][/\ RecordStep =>
            /\ EndsInMarker(last'.raw) => last'.kind = "continue"
            /\ last'.kind = "continue" => group' = Append(group, last'.raw) /\ out' = <<>>
            /\ last'.kind # "continue" =>
                   /\ last'.group = Append(group, last'.raw)
                   /\ group' = <<>> /\ stabbuff' = <<>>
            /\ last'.kind = "skip" => last'.parsed /\ ~last'.ret /\ out' = <<>>
            /\ last'.kind = "dispatch" /\ last'.tag = N_GSYM =>
                   /\ Len(out') = 1
                   /\ out'[1].call = "DEBUG_AddSymbol"
                   /\ out'[1].addr = load_offset + last'.value
            /\ last'.kind = "dispatch" /\ last'.tag = N_OPT => out' = <<>>
       /\ last'.kind = "end" => out' = <<>> /\ group' = group]_vars

\* A group of an N_OPT piece and an N_GSYM record was dispatched as N_GSYM.
C37_JoinedDispatchedAsGsym ==
    /\ last.kind = "dispatch" /\ last.tag = N_GSYM /\ last.value = 64
    /\ last.group = <<TxMarker, TxA1>>
    /\ Len(out) = 1 /\ out[1].addr = load_offset + 64

(***************************************************************************)
(* Rebinding by the registry and a full parse                              *)
(***************************************************************************)
\* The subscripts of the slots of a table that hold a node.
NonEmpty(v) == {k - 1 : k \in {n \in 1..Len(v) : v[n] # 0}}

\* The unit's table after a full parse of a text in the state as it is,
\* the registry being empty.
FullParse(text) ==
    DEBUG_ParseTypedefStab([Globals(FALSE) EXCEPT !.ktd = <<>>], AsBuf(text),
                           stab_strcpy(text, 1)).m.cu

\* The step has the registry handle a text in a unit whose table is empty.
HandledInFreshUnit == TypedefStep /\ last'.handled /\ NonEmpty(cu_vector) = {}

\* C38 as stated, for a text whose last sub-definition is a reference
\* N=(f,s): after the registry has handled the text in a fresh unit the
\* slots that hold a node are those a full parse of the text in that unit
\* leaves with a node.
C38_RebindingAsFullParse ==
    [][HandledInFreshUnit /\ EndsInReference(last'.text) =>
          NonEmpty(cu_vector') = NonEmpty(FullParse(last'.text))]_vars

(***************************************************************************)
(* Slot addresses across the growth of a table                             *)
(***************************************************************************)
\* C39 as stated: no store of pass 2 through the slot address taken before
\* the '=' goes to storage that the growth of the table has released.
C39_StoresReachTable == ~last.lost
=============================================================================
